---- MODULE Spec2Model ----
(***************************************************************************)
(* Nyayamrit retrieval-and-verification pipeline.                          *)
(*                                                                         *)
(* A response text is a sequence of phrases (tokens).  Every regular       *)
(* expression of the validator is modelled by the set of phrases it        *)
(* matches; a phrase keeps the strings the expression captures, so that    *)
(* index membership tests are the tests the code performs.                 *)
(*                                                                         *)
(* Texts are scanned left to right, pattern by pattern, as re.finditer     *)
(* does.  Scores are integers in hundredths (0.5 is 50).                   *)
(***************************************************************************)
EXTENDS Integers, Sequences, FiniteSets, TLC

\* ------------------------------------------------------------------------
\* Bounds of the model
\* ------------------------------------------------------------------------
\* longest response text, in phrases
MaxLen == 2
\* most edges in one edge file
MaxEdges == 2
\* most queries one engine processes
MaxQueries == 2

\* ------------------------------------------------------------------------
\* The knowledge graph the model loads (nodes/sections.data.json,
\* nodes/definitions.data.json) and the numbers a text may mention
\* ------------------------------------------------------------------------
GraphSectionNumbers == {"2", "35"}
GraphDefinitionTerms == {"consumer"}

\* ------------------------------------------------------------------------
\* Phrases of a response text
\* ------------------------------------------------------------------------
Tok(kind, a, b, c) == [kind |-> kind, a |-> a, b |-> b, c |-> c]

\* "Section 9999", "Sec. 9999", "§ 9999", "Section 2(7)"
SecRefTokens ==
    { Tok("secref", "Section", n, "") : n \in GraphSectionNumbers \cup {"9999"} }
    \cup { Tok("secref", "Sec.", "9999", ""), Tok("secref", "§", "9999", ""),
           Tok("secref", "Section", "2", "(7)") }

\* "[Citation: <a><b>]"
CiteTokens ==
    { Tok("cite", "", "Citation-1", ""), Tok("cite", "", "Citation-9", ""),
      Tok("cite", "Section ", "2", ""), Tok("cite", "Section ", "9999", ""),
      Tok("cite", "Clause ", "(zz)", ""),
      Tok("cite", "Definition of ", "consumer", ""),
      Tok("cite", "Definition of ", "widget", "") }

\* phrasing that predicts a judicial outcome
PredictiveTokens ==
    { Tok("predictive", "I predict", "", ""),
      Tok("predictive", "court will find", "", ""),
      Tok("predictive", "the court will rule", "", "") }

\* "Consumers have the right to ... ." ; b tells whether at least 60% of
\* its words of four letters or more occur in the assembled context
ClaimTokens ==
    { Tok("claim", "consumers have the right to", "supported", ""),
      Tok("claim", "consumers have the right to", "unsupported", "") }

DisclaimerToken == Tok("disclaimer", "for educational purposes only", "", "")
HallucinationToken == Tok("hallucination", "Supreme Court ruled", "", "")
TextToken == Tok("text", "", "", "")

Tokens == SecRefTokens \cup CiteTokens \cup PredictiveTokens \cup ClaimTokens
          \cup {DisclaimerToken, HallucinationToken, TextToken}

Responses == UNION { [1..n -> Tokens] : n \in 0..MaxLen }

\* ------------------------------------------------------------------------
\* State
\* ------------------------------------------------------------------------
VARIABLES
    response,            \* the generated text handed to validate_response
    citations,           \* keys of context.citations
    valid_sections,      \* CitationValidator.valid_sections
    valid_definitions,   \* CitationValidator.valid_definitions
    graph_nodes,         \* graph_context.nodes
    confidence_score,    \* overall score of the confidence scorer
    require_all_claims,  \* citation_constraints.require_all_claims
    validated,           \* validate_response has returned
    result               \* the ValidationResult

VARIABLES
    kg_files,            \* content of the knowledge_graph directory
    load_state,          \* "unloaded", "loaded" or "failed" (RuntimeError)
    kg,                  \* the collections GraphTraversal holds after load
    index,               \* the lookup indices of _create_indices
    kg_validation        \* result of GraphRAGEngine.validate_knowledge_graph

graphVars == <<kg_files, load_state, kg, index, kg_validation>>

VARIABLES
    max_context_length,  \* ContextBuilder.max_context_length
    citation_counter,    \* ContextBuilder.citation_counter
    query_count,         \* GraphRAGEngine.query_count
    total_processing_time, \* GraphRAGEngine.total_processing_time
    query_intent,        \* the last GraphRAGResponse: its intent,
    graph_context,       \*   its retrieved graph context,
    llm_context          \*   its assembled context

engineVars == <<max_context_length, citation_counter, query_count,
                total_processing_time, query_intent, graph_context, llm_context>>

\* threads that call process_query on one engine
VARIABLES
    worker_pc,           \* where each thread stands in process_query
    worker_reg,          \* the value a thread has loaded for its "+="
    worker_time,         \* processing_time of the thread's call
    worker_calls         \* calls each thread has completed

counterVars == <<worker_pc, worker_reg, worker_time, worker_calls>>

\* one traverse_relationships call and one get_section_hierarchy call
VARIABLES
    trav_request,        \* start_node, relation_types, max_depth
    trav_pc,             \* "idle", "loop" (inside the while) or "returned"
    queue,               \* the (node_id, depth) pairs still to pop
    visited,             \* the set of expanded node ids
    result_nodes,        \* the nodes found so far
    expanded,            \* the node ids in the order they were expanded
    hierarchy            \* what get_section_hierarchy returned

traversalVars == <<trav_request, trav_pc, queue, visited, result_nodes,
                   expanded, hierarchy>>

VARIABLES
    components,              \* the six component scores, in hundredths
    confidence_score_result  \* the ConfidenceScore score_response returned

scorerVars == <<components, confidence_score_result>>

VARIABLES
    providers,           \* LLMManager.providers, in insertion order
    provider_behaviour,  \* what each provider object does when it is asked
    mgr_pc,              \* "idle", "loop", "returned" or "raised"
    provider_order,      \* the providers generate_response still has to try
    attempts,            \* failed attempts of the current request
    last_error,          \* error type of the last failed attempt
    calls,               \* the providers called by the current request
    llm_result,          \* the provider that answered, 0 when none did
    total_requests,
    successful_requests,
    failed_requests

managerVars == <<providers, provider_behaviour, mgr_pc, provider_order, attempts,
                 last_error, calls, llm_result, total_requests,
                 successful_requests, failed_requests>>

VARIABLES
    user_query,     \* the words of the string handed to parse_query
    parsed_intent   \* the QueryIntent parse_query returned

parserVars == <<user_query, parsed_intent>>

\* one build_context call on a ContextBuilder
VARIABLES
    builder_pc,     \* "idle" or "returned"
    context_parts,  \* "\n\n".join(context_parts), before any truncation
    key_log         \* the _get_next_citation_key calls, in order

builderVars == <<builder_pc, context_parts, key_log>>

VARIABLES
    temporal_validity   \* what _calculate_temporal_validity returned, in
                        \* hundredths; -1 before the call

temporalVars == <<temporal_validity>>

\* threads that call build_context on the engine's one ContextBuilder
VARIABLES
    assembly_pc,    \* where each thread stands in build_context
    assembly_reg,   \* the counter value a thread has loaded for its "+="
    keys_needed,    \* the number of keys the thread's call issues
    issued_keys     \* the numbers of the keys the thread's call was given

assemblyVars == <<assembly_pc, assembly_reg, keys_needed, issued_keys>>

otherVars == <<counterVars, traversalVars, scorerVars, managerVars, parserVars, builderVars, temporalVars, assemblyVars>>

VARIABLES
    request,             \* the QueryRequest: parsed intent and audience
    llm_behaviour,       \* what the provider does when it is called
    llm_outcome,         \* "not_called", "returned" or "raised"
    api_response,        \* what POST /api/v1/query answered
    step_failure         \* the pipeline step that raises in this request

apiVars == <<request, llm_behaviour, llm_outcome, api_response,
             step_failure>>

validatorVars == <<response, citations, valid_sections, valid_definitions,
                   graph_nodes, confidence_score, require_all_claims,
                   validated, result>>

vars == <<validatorVars, graphVars, engineVars, apiVars, otherVars>>

\* ------------------------------------------------------------------------
\* Helpers
\* ------------------------------------------------------------------------
RECURSIVE SortedSeq(_)
SortedSeq(S) ==
    IF S = {} THEN <<>>
    ELSE LET m == CHOOSE x \in S : \A y \in S : x <= y
         IN <<m>> \o SortedSeq(S \ {m})

Range(s) == { s[i] : i \in 1..Len(s) }

\* needle occurs in hay (Python's `in` on strings); among the strings of
\* this model none is a proper substring of another
OccursIn(needle, hay) == needle = hay

Issue(severity, issue_type, location) ==
    [severity |-> severity, issue_type |-> issue_type, location |-> location]

\* ------------------------------------------------------------------------
\* Knowledge graph files and GraphTraversal._load_knowledge_graph
\* ------------------------------------------------------------------------
Section2 == [section_id |-> "CPA2019_2", section_number |-> "2",
             title |-> "Definitions", act |-> "Consumer Protection Act, 2019",
             text |-> <<"consumer", "means", "any", "person", "who", "buys", "goods">>,
             chapter |-> "I", chapter_title |-> "Preliminary"]
Section35 == [section_id |-> "CPA2019_35", section_number |-> "35",
              title |-> "Manner in which complaint shall be made",
              act |-> "Consumer Protection Act, 2019",
              text |-> <<"a", "complaint", "may", "be", "filed", "with", "a", "district", "commission">>,
              chapter |-> "IV",
              chapter_title |-> "Consumer Disputes Redressal Commission"]
\* a second section of chapter IV
Section36 == [section_id |-> "CPA2019_36", section_number |-> "36",
              title |-> "Proceedings before District Commission",
              act |-> "Consumer Protection Act, 2019",
              text |-> <<"every", "proceeding", "shall", "be", "conducted", "by", "the", "president">>,
              chapter |-> "IV",
              chapter_title |-> "Consumer Disputes Redressal Commission"]
Clause2a == [clause_id |-> "CPA2019_2_a", parent_section |-> "CPA2019_2",
             label |-> "(a)", text |-> <<"advertisement", "means", "any", "publicity">>]
DefConsumer == [term |-> "consumer",
                definition |-> <<"any", "person", "who", "buys", "any", "goods">>,
                defined_in |-> "CPA2019_2"]
DefDefect == [term |-> "defect",
              definition |-> <<"any", "fault", "imperfection", "or", "shortcoming", "in", "quality">>,
              defined_in |-> "CPA2019_2"]
RightSafety == [right_id |-> "CPA_2019_R_001", right_type |-> "consumer_right",
                description |-> <<"protected", "against", "hazardous", "goods">>,
                granted_by |-> "CPA2019_2"]
RightComplaint == [right_id |-> "CPA2019_35_R_001", right_type |-> "procedural_right",
                   description |-> <<"file", "a", "complaint", "and", "seek", "redressal">>,
                   granted_by |-> "CPA2019_35"]

\* the node files in file order
AllSections == <<Section2, Section35>>
AllClauses == <<Clause2a>>
AllDefinitions == <<DefConsumer, DefDefect>>
AllRights == <<RightSafety, RightComplaint>>

\* edges/contains.data.json: the second child is no loaded clause
ContainsUniverse ==
    { [parent |-> "CPA2019_2", child |-> "CPA2019_2_a"],
      [parent |-> "CPA2019_2", child |-> "CPA2019_2_z"] }
\* edges/references.data.json: 2 and 35 refer to each other, 35 also to a
\* section that is in no file
ReferencesUniverse ==
    { [from |-> "CPA2019_35", to |-> "CPA2019_2", reference_type |-> "references"],
      [from |-> "CPA2019_2", to |-> "CPA2019_35", reference_type |-> "references"],
      [from |-> "CPA2019_35", to |-> "CPA2019_99", reference_type |-> "references"] }
\* edges/defines.data.json
DefinesUniverse ==
    { [source |-> "CPA2019_2", target |-> "DEF_consumer"] }

SeqsUpTo(S, n) == UNION { [1..k -> S] : k \in 0..n }

\* the files that hold some of the records of all, in the order of all
SubLists(all) == { SelectSeq(all, LAMBDA x : x \in S) : S \in SUBSET Range(all) }

\* the directories the model loads; malformed: some record lacks a key
\* that _create_indices subscripts
KGFiles ==
    [ sections : SubLists(AllSections),
      clauses : SubLists(AllClauses),
      definitions : {<<DefConsumer>>},
      rights : {AllRights},
      contains_edges : SeqsUpTo(ContainsUniverse, MaxEdges),
      references_edges : SeqsUpTo(ReferencesUniverse, MaxEdges),
      defines_edges : SeqsUpTo(DefinesUniverse, MaxEdges),
      malformed : BOOLEAN ]

EmptyKG ==
    [ sections |-> <<>>, clauses |-> <<>>, definitions |-> <<>>, rights |-> <<>>,
      contains_edges |-> <<>>, references_edges |-> <<>>, defines_edges |-> <<>> ]

EmptyDict == [k \in {} |-> k]

EmptyIndex ==
    [ section_by_id |-> EmptyDict, section_by_number |-> EmptyDict,
      clause_by_id |-> EmptyDict, clauses_by_section |-> EmptyDict,
      definition_by_term |-> EmptyDict, right_by_id |-> EmptyDict,
      rights_by_type |-> EmptyDict, edges_from |-> EmptyDict ]

NoValidation == [ran |-> FALSE, is_valid |-> TRUE, errors |-> <<>>, warnings |-> <<>>]

\* str.lower() on the terms of the model
Lower(str) == IF str = "Consumer" THEN "consumer" ELSE str

\* the last record of list whose key is v (a dict comprehension keeps the
\* last one)
ByKey(list, key, v) ==
    list[CHOOSE i \in 1..Len(list) :
            /\ list[i][key] = v
            /\ \A j \in (i + 1)..Len(list) : list[j][key] # v]

\* (from, to, relation) triples in the order _create_indices concatenates
all_edges(g) ==
    [i \in 1..Len(g.contains_edges) |->
        <<g.contains_edges[i].parent, g.contains_edges[i].child, "contains">>]
    \o [i \in 1..Len(g.references_edges) |->
        <<g.references_edges[i].from, g.references_edges[i].to,
          g.references_edges[i].reference_type>>]
    \o [i \in 1..Len(g.defines_edges) |->
        <<g.defines_edges[i].source, g.defines_edges[i].target, "defines">>]

_create_indices(g) ==
    LET edges == all_edges(g)
        sources == { edges[i][1] : i \in 1..Len(edges) }
        out(n) == SelectSeq(edges, LAMBDA e : e[1] = n)
    IN [ section_by_id |->
            [id \in { x.section_id : x \in Range(g.sections) } |->
                ByKey(g.sections, "section_id", id)],
         section_by_number |->
            [n \in { x.section_number : x \in Range(g.sections) } |->
                ByKey(g.sections, "section_number", n)],
         clause_by_id |->
            [id \in { c.clause_id : c \in Range(g.clauses) } |->
                ByKey(g.clauses, "clause_id", id)],
         clauses_by_section |->
            [p \in { c.parent_section : c \in Range(g.clauses) } |->
                SelectSeq(g.clauses, LAMBDA c : c.parent_section = p)],
         definition_by_term |->
            [t \in { Lower(d.term) : d \in Range(g.definitions) } |->
                g.definitions[CHOOSE i \in 1..Len(g.definitions) :
                    /\ Lower(g.definitions[i].term) = t
                    /\ \A j \in (i + 1)..Len(g.definitions) :
                          Lower(g.definitions[j].term) # t]],
         right_by_id |->
            [id \in { r.right_id : r \in Range(g.rights) } |->
                ByKey(g.rights, "right_id", id)],
         rights_by_type |->
            [t \in { r.right_type : r \in Range(g.rights) } |->
                SelectSeq(g.rights, LAMBDA r : r.right_type = t)],
         edges_from |->
            [n \in sources |-> [i \in 1..Len(out(n)) |-> <<out(n)[i][2], out(n)[i][3]>>]] ]

\* GraphTraversal.__init__: load the seven files, build the indices; any
\* exception becomes RuntimeError
_load_knowledge_graph ==
    /\ load_state = "unloaded"
    /\ IF kg_files.malformed
       THEN /\ load_state' = "failed"
            /\ UNCHANGED <<kg, index>>
       ELSE LET g == [ sections |-> kg_files.sections,
                       clauses |-> kg_files.clauses,
                       definitions |-> kg_files.definitions,
                       rights |-> kg_files.rights,
                       contains_edges |-> kg_files.contains_edges,
                       references_edges |-> kg_files.references_edges,
                       defines_edges |-> kg_files.defines_edges ]
            IN /\ kg' = g
               /\ index' = _create_indices(g)
               /\ load_state' = "loaded"
    /\ UNCHANGED <<kg_files, kg_validation>>

\* GraphRAGEngine.validate_knowledge_graph
validate_knowledge_graph ==
    /\ load_state = "loaded"
    /\ ~kg_validation.ran
    /\ LET section_ids == { x.section_id : x \in Range(kg.sections) }
           refs == kg.references_edges
           warn(i) ==
               (IF refs[i].from \notin section_ids
                THEN <<"Reference from unknown section">> ELSE <<>>)
               \o (IF refs[i].to \notin section_ids
                   THEN <<"Reference to unknown section">> ELSE <<>>)
           RECURSIVE warnings_from(_)
           warnings_from(i) ==
               IF i > Len(refs) THEN <<>> ELSE warn(i) \o warnings_from(i + 1)
       IN kg_validation' =
            [ ran |-> TRUE,
              is_valid |-> kg.sections # <<>>,
              errors |-> IF kg.sections = <<>> THEN <<"No sections loaded">> ELSE <<>>,
              warnings |-> (IF kg.definitions = <<>> THEN <<"No definitions loaded">> ELSE <<>>)
                           \o (IF kg.rights = <<>> THEN <<"No rights loaded">> ELSE <<>>)
                           \o warnings_from(1) ]
    /\ UNCHANGED <<kg_files, load_state, kg, index>>

\* ------------------------------------------------------------------------
\* GraphTraversal.retrieve_context
\* ------------------------------------------------------------------------
GraphNode(node_id, node_type, content) ==
    [node_id |-> node_id, node_type |-> node_type, content |-> content]

GraphEdge(from_node, to_node, relation_type) ==
    [from_node |-> from_node, to_node |-> to_node, relation_type |-> relation_type]

get_text(node) ==
    IF node.node_type \in {"section", "clause"} THEN node.content.text
    ELSE IF node.node_type = "definition" THEN node.content.definition
    ELSE IF node.node_type = "right" THEN node.content.description
    ELSE <<>>

get_citation(node) ==
    IF node.node_type = "section"
    THEN "Section " \o node.content.section_number \o ", " \o node.content.act
    ELSE IF node.node_type = "clause"
    THEN node.content.parent_section \o ", Clause " \o node.content.label
    ELSE IF node.node_type = "definition"
    THEN "Definition of '" \o node.content.term \o "' in " \o node.content.defined_in
    ELSE IF node.node_type = "right"
    THEN "Right granted by " \o node.content.granted_by
    ELSE node.node_id

\* (nodes, edges, traversal_path) of a handler
Found(nodes, edges, traversal_path) ==
    [nodes |-> nodes, edges |-> edges, traversal_path |-> traversal_path]

NothingFound == Found(<<>>, <<>>, <<>>)

Cat(f, g) == Found(f.nodes \o g.nodes, f.edges \o g.edges,
                   f.traversal_path \o g.traversal_path)

\* "term in text.lower()", on texts that are word lists
InText(term, text) == \E i \in 1..Len(text) : Lower(text[i]) = term

Prefix(list, n) == SubSeq(list, 1, IF Len(list) < n THEN Len(list) ELSE n)

\* a node on the path
OnPath(node) == Found(<<node>>, <<>>, <<node.node_id>>)

\* the sections of the numbers that are indexed, each on the path
RECURSIVE SectionsOnPath(_, _)
SectionsOnPath(idx, numbers) ==
    IF numbers = <<>> THEN NothingFound
    ELSE LET rest == SectionsOnPath(idx, Tail(numbers))
         IN IF Head(numbers) \in DOMAIN idx.section_by_number
            THEN LET section == idx.section_by_number[Head(numbers)]
                 IN Cat(OnPath(GraphNode(section.section_id, "section", section)), rest)
            ELSE rest

\* the definition of term, if indexed, on the path under node_id
DefinitionOnPath(idx, term, node_id) ==
    IF term \in DOMAIN idx.definition_by_term
    THEN OnPath(GraphNode(node_id, "definition", idx.definition_by_term[term]))
    ELSE NothingFound

\* the rights, each on the path
RightsOnPath(rights) ==
    Found([i \in 1..Len(rights) |-> GraphNode(rights[i].right_id, "right", rights[i])],
          <<>>,
          [i \in 1..Len(rights) |-> rights[i].right_id])

\* self.rights_by_type.get('consumer_right', [])
consumer_rights(idx) ==
    IF "consumer_right" \in DOMAIN idx.rights_by_type
    THEN idx.rights_by_type["consumer_right"] ELSE <<>>

_calculate_text_match_score(text, terms) ==
    IF text = <<>> \/ terms = <<>> THEN 0
    ELSE LET RECURSIVE total(_)
             total(i) ==
                IF i > Len(terms) THEN 0
                ELSE (IF InText(Lower(terms[i]), text) THEN 200 ELSE 0) + total(i + 1)
         IN total(1) \div Len(terms)

\* list.sort(key=score, reverse=True): stable, highest score first
RECURSIVE SortByScore(_)
SortByScore(matches) ==
    IF matches = <<>> THEN <<>>
    ELSE LET best == CHOOSE i \in 1..Len(matches) :
                        /\ \A j \in 1..Len(matches) : matches[j].score <= matches[i].score
                        /\ \A j \in 1..(i - 1) : matches[j].score < matches[i].score
             others == [k \in 1..(Len(matches) - 1) |->
                            IF k < best THEN matches[k] ELSE matches[k + 1]]
         IN <<matches[best]>> \o SortByScore(others)

_keyword_search(g, terms) ==
    LET scored(list, node_type, field) ==
            [i \in 1..Len(list) |->
                [score |-> _calculate_text_match_score(list[i][field], terms),
                 node |-> GraphNode(
                    IF node_type = "section" THEN list[i].section_id
                    ELSE IF node_type = "definition" THEN "DEF_" \o Lower(list[i].term)
                    ELSE list[i].right_id,
                    node_type, list[i])]]
        candidates == scored(g.sections, "section", "text")
                      \o scored(g.definitions, "definition", "definition")
                      \o scored(g.rights, "right", "description")
        scored_matches == SortByScore(SelectSeq(candidates, LAMBDA m : m.score > 0))
        top == Prefix(scored_matches, 5)
    IN Found([i \in 1..Len(top) |-> top[i].node], <<>>,
             [i \in 1..Len(top) |-> top[i].node.node_id])

RECURSIVE definition_matches(_, _)
definition_matches(idx, terms) ==
    IF terms = <<>> THEN NothingFound
    ELSE LET term_lower == Lower(Head(terms))
             rest == definition_matches(idx, Tail(terms))
         IN IF term_lower \notin DOMAIN idx.definition_by_term THEN rest
            ELSE LET definition == idx.definition_by_term[term_lower]
                     node == GraphNode("DEF_" \o term_lower, "definition", definition)
                     defined_in == definition.defined_in
                 IN IF defined_in \in DOMAIN idx.section_by_id
                    THEN Cat(Found(<<node, GraphNode(defined_in, "section",
                                                     idx.section_by_id[defined_in])>>,
                                   <<GraphEdge(defined_in, node.node_id, "defines")>>,
                                   <<node.node_id>>),
                             rest)
                    ELSE Cat(OnPath(node), rest)

_handle_definition_lookup(idx, g, qi) ==
    LET exact == definition_matches(idx, qi.legal_terms)
    IN IF exact.nodes = <<>> THEN _keyword_search(g, qi.legal_terms) ELSE exact

RECURSIVE _handle_section_retrieval(_, _)
_handle_section_retrieval(idx, section_numbers) ==
    IF section_numbers = <<>> THEN NothingFound
    ELSE LET rest == _handle_section_retrieval(idx, Tail(section_numbers))
         IN IF Head(section_numbers) \notin DOMAIN idx.section_by_number THEN rest
            ELSE LET section == idx.section_by_number[Head(section_numbers)]
                     section_id == section.section_id
                     clauses == IF section_id \in DOMAIN idx.clauses_by_section
                                THEN idx.clauses_by_section[section_id] ELSE <<>>
                 IN Cat(Found(<<GraphNode(section_id, "section", section)>>
                              \o [i \in 1..Len(clauses) |->
                                    GraphNode(clauses[i].clause_id, "clause", clauses[i])],
                              [i \in 1..Len(clauses) |->
                                    GraphEdge(section_id, clauses[i].clause_id, "contains")],
                              <<section_id>>),
                        rest)

RECURSIVE rights_with_sections(_, _)
rights_with_sections(idx, rights) ==
    IF rights = <<>> THEN NothingFound
    ELSE LET right == Head(rights)
             node == GraphNode(right.right_id, "right", right)
             granted_by == right.granted_by
             rest == rights_with_sections(idx, Tail(rights))
         IN IF granted_by \in DOMAIN idx.section_by_id
            THEN Cat(Found(<<node, GraphNode(granted_by, "section",
                                             idx.section_by_id[granted_by])>>,
                           <<GraphEdge(granted_by, right.right_id, "grants_right")>>,
                           <<right.right_id>>),
                     rest)
            ELSE Cat(OnPath(node), rest)

_handle_rights_query(idx) == rights_with_sections(idx, consumer_rights(idx))

_handle_defective_goods_scenario(idx) ==
    Cat(DefinitionOnPath(idx, "defect", "DEF_defect"),
    Cat(SectionsOnPath(idx, <<"35", "39">>),
        RightsOnPath(SelectSeq(Prefix(consumer_rights(idx), 2),
            LAMBDA r : \E term \in {"quality", "defect", "redressal"} :
                          InText(term, r.description)))))

_handle_misleading_ad_scenario(idx) ==
    Cat(DefinitionOnPath(idx, "misleading advertisement", "DEF_misleading_advertisement"),
    Cat(DefinitionOnPath(idx, "advertisement", "DEF_advertisement"),
        SectionsOnPath(idx, <<"18", "21", "35">>)))

_handle_overcharging_scenario(idx) == SectionsOnPath(idx, <<"35", "39">>)

_handle_service_deficiency_scenario(idx) ==
    Cat(DefinitionOnPath(idx, "deficiency", "DEF_deficiency"),
        SectionsOnPath(idx, <<"35", "39">>))

_handle_generic_scenario(idx) ==
    Cat(SectionsOnPath(idx, <<"35", "39", "2">>),
        RightsOnPath(Prefix(consumer_rights(idx), 2)))

_handle_scenario_analysis(idx, qi) ==
    LET mentions(words) == \E w \in words : InText(w, qi.original_query)
    IN IF mentions({"defective", "faulty", "damaged", "broken", "defect"})
       THEN _handle_defective_goods_scenario(idx)
       ELSE IF mentions({"misleading", "false", "advertisement", "advertise"})
       THEN _handle_misleading_ad_scenario(idx)
       ELSE IF mentions({"overcharg", "excess", "extra", "price", "refund"})
       THEN _handle_overcharging_scenario(idx)
       ELSE IF mentions({"service", "deficiency", "poor service", "bad service"})
       THEN _handle_service_deficiency_scenario(idx)
       ELSE _handle_generic_scenario(idx)

Min(a, b) == IF a < b THEN a ELSE b

\* hundredths; the halving is exact on the confidences of the model
_calculate_confidence(qi, nodes, edges) ==
    LET boosted == qi.confidence
                   + (IF nodes # <<>> THEN Min(Len(nodes) * 20, 30) ELSE 0)
                   + (IF edges # <<>> THEN Min(Len(edges) * 10, 20) ELSE 0)
        base_confidence == IF nodes = <<>> THEN boosted \div 2 ELSE boosted
    IN Min(base_confidence, 100)

retrieve_context(idx, g, qi) ==
    LET found == IF qi.intent_type = "definition_lookup"
                 THEN _handle_definition_lookup(idx, g, qi)
                 ELSE IF qi.intent_type = "section_retrieval"
                 THEN _handle_section_retrieval(idx, qi.section_numbers)
                 ELSE IF qi.intent_type = "rights_query"
                 THEN _handle_rights_query(idx)
                 ELSE IF qi.intent_type = "scenario_analysis"
                 THEN _handle_scenario_analysis(idx, qi)
                 ELSE NothingFound
    IN [ nodes |-> found.nodes,
         edges |-> found.edges,
         citations |-> [i \in 1..Len(found.nodes) |-> get_citation(found.nodes[i])],
         confidence |-> _calculate_confidence(qi, found.nodes, found.edges),
         traversal_path |-> found.traversal_path ]

\* None
NoNode == GraphNode("", "none", EmptyDict)

\* sections, then clauses, then rights, then "DEF_<term>"
_get_node_by_id(idx, node_id) ==
    IF node_id \in DOMAIN idx.section_by_id
    THEN GraphNode(node_id, "section", idx.section_by_id[node_id])
    ELSE IF node_id \in DOMAIN idx.clause_by_id
    THEN GraphNode(node_id, "clause", idx.clause_by_id[node_id])
    ELSE IF node_id \in DOMAIN idx.right_by_id
    THEN GraphNode(node_id, "right", idx.right_by_id[node_id])
    ELSE IF \E t \in DOMAIN idx.definition_by_term : node_id = "DEF_" \o t
    THEN GraphNode(node_id, "definition",
                   idx.definition_by_term[CHOOSE t \in DOMAIN idx.definition_by_term :
                                             node_id = "DEF_" \o t])
    ELSE NoNode

\* "if current_node in visited or depth > max_depth: continue", without
\* the visited test
skip_beyond_depth(item, seen, max_depth) == item.depth > max_depth

\* "if current_node in visited or depth > max_depth: continue"
skip(item, seen, max_depth) == item.node_id \in seen \/ item.depth > max_depth

\* variant: the for loop appends every target, whatever its relation
targets_of_any_relation(idx, current_node, depth, relation_types, seen) ==
    IF current_node \in DOMAIN idx.edges_from
    THEN LET followed == SelectSeq(idx.edges_from[current_node],
                            LAMBDA e : e[1] \notin seen)
         IN [i \in 1..Len(followed) |-> [node_id |-> followed[i][1], depth |-> depth + 1]]
    ELSE <<>>

\* the pairs the for loop appends for current_node
targets_of(idx, current_node, depth, relation_types, seen) ==
    IF current_node \in DOMAIN idx.edges_from
    THEN LET followed == SelectSeq(idx.edges_from[current_node],
                            LAMBDA e : e[2] \in relation_types /\ e[1] \notin seen)
         IN [i \in 1..Len(followed) |-> [node_id |-> followed[i][1], depth |-> depth + 1]]
    ELSE <<>>

\* queue = [(start_node, 0)]
traverse_relationships_call ==
    /\ trav_pc = "idle"
    /\ trav_pc' = "loop"
    /\ visited' = {}
    /\ result_nodes' = <<>>
    /\ expanded' = <<>>
    /\ queue' = <<[node_id |-> trav_request.start_node, depth |-> 0]>>
    /\ UNCHANGED <<trav_request, hierarchy, graphVars>>

\* variant: edges_from is a defaultdict, so that subscripting it with a
\* node that has no outgoing edge stores an empty list
traverse_loop_defaultdict ==
    /\ trav_pc = "loop"
    /\ queue # <<>>
    /\ LET item == Head(queue)
       IN IF skip(item, visited, trav_request.max_depth)
          THEN /\ queue' = Tail(queue)
               /\ UNCHANGED <<visited, result_nodes, expanded, index>>
          ELSE /\ visited' = visited \cup {item.node_id}
               /\ expanded' = Append(expanded, item.node_id)
               /\ result_nodes' =
                     IF _get_node_by_id(index, item.node_id) # NoNode
                     THEN Append(result_nodes, _get_node_by_id(index, item.node_id))
                     ELSE result_nodes
               /\ queue' = Tail(queue)
                           \o targets_of(index, item.node_id, item.depth,
                                         trav_request.relation_types, visited')
               /\ index' = IF item.node_id \in DOMAIN index.edges_from THEN index
                           ELSE [index EXCEPT !.edges_from = @ @@ (item.node_id :> <<>>)]
    /\ UNCHANGED <<trav_request, trav_pc, hierarchy, kg_files, load_state, kg,
                   kg_validation>>

\* one turn of "while queue:"
traverse_loop ==
    /\ trav_pc = "loop"
    /\ queue # <<>>
    /\ LET item == Head(queue)
       IN IF skip(item, visited, trav_request.max_depth)
          THEN /\ queue' = Tail(queue)
               /\ UNCHANGED <<visited, result_nodes, expanded>>
          ELSE /\ visited' = visited \cup {item.node_id}
               /\ expanded' = Append(expanded, item.node_id)
               /\ result_nodes' =
                     IF _get_node_by_id(index, item.node_id) # NoNode
                     THEN Append(result_nodes, _get_node_by_id(index, item.node_id))
                     ELSE result_nodes
               /\ queue' = Tail(queue)
                           \o targets_of(index, item.node_id, item.depth,
                                         trav_request.relation_types, visited')
    /\ UNCHANGED <<trav_request, trav_pc, hierarchy, graphVars>>

\* the queue is empty: return result_nodes
traverse_return ==
    /\ trav_pc = "loop"
    /\ queue = <<>>
    /\ trav_pc' = "returned"
    /\ UNCHANGED <<trav_request, queue, visited, result_nodes, expanded, hierarchy,
                   graphVars>>

\* up to three other sections of the section's chapter
get_section_hierarchy ==
    /\ ~hierarchy.called
    /\ LET section_id == trav_request.start_node
           related_sections ==
               IF section_id \in DOMAIN index.section_by_id
               THEN SelectSeq(kg.sections, LAMBDA s :
                       /\ s.chapter = index.section_by_id[section_id].chapter
                       /\ s.section_id # section_id)
               ELSE <<>>
           listed == Prefix(related_sections, 3)
       IN hierarchy' =
            [ called |-> TRUE,
              nodes |-> [i \in 1..Len(listed) |->
                            GraphNode(listed[i].section_id, "section", listed[i])] ]
    /\ UNCHANGED <<trav_request, trav_pc, queue, visited, result_nodes, expanded,
                   graphVars>>

get_primary_nodes(gc) ==
    SelectSeq(gc.nodes, LAMBDA n : n.node_id \in Range(Prefix(gc.traversal_path, 3)))

get_related_nodes(gc) ==
    LET primary_ids == { n.node_id : n \in Range(get_primary_nodes(gc)) }
    IN SelectSeq(gc.nodes, LAMBDA n : n.node_id \notin primary_ids)

\* ------------------------------------------------------------------------
\* ContextBuilder
\* ------------------------------------------------------------------------
\* The formatted text is a list of parts: the "=== ... ===" headers and
\* the entries under them.  A part keeps the citation key it prints as
\* "[Citation-n]", its length in characters, and the offset at which the
\* key ends (0: no key).
Part(kind, label, key, len, key_at) ==
    [kind |-> kind, label |-> label, key |-> key, len |-> len, key_at |-> key_at]

Header(label) == Part("header", label, "", 40, 0)

Digits == <<"0", "1", "2", "3", "4", "5", "6", "7", "8", "9">>

RECURSIVE ToStr(_)
ToStr(n) == IF n < 10 THEN Digits[n + 1]
            ELSE ToStr(n \div 10) \o Digits[(n % 10) + 1]

\* f"Citation-{self.citation_counter}"
CitationKeyFor(n) == "Citation-" \o ToStr(n)

\* what a _build_* method returns, and the counter it leaves
Built(parts, cits, counter) == [parts |-> parts, citations |-> cits, counter |-> counter]

\* the dict {key of the i-th node: its citation}
KeyedCitations(nodes, counter) ==
    [k \in { CitationKeyFor(counter + i) : i \in 1..Len(nodes) } |->
        get_citation(nodes[CHOOSE i \in 1..Len(nodes) : CitationKeyFor(counter + i) = k])]

\* **Section N: title** [key] \n\n text ; brief: the text cut at 200
_format_section_node(node, citation_key, brief) ==
    Part("entry", "Section " \o node.content.section_number, citation_key,
         IF brief THEN 260 ELSE 300, 60)

_format_definition_node(node, citation_key) ==
    Part("entry", "Definition of '" \o node.content.term \o "'", citation_key, 200, 50)

_format_right_node(node, citation_key) ==
    Part("entry", "Consumer Right", citation_key, 150, 40)

_build_primary_provisions(nodes, counter) ==
    LET keyed == [i \in 1..Len(nodes) |->
                    [node |-> nodes[i], key |-> CitationKeyFor(counter + i)]]
        shown == SelectSeq(keyed, LAMBDA e :
                    e.node.node_type \in {"section", "definition", "right"})
    IN Built([i \in 1..Len(shown) |->
                 IF shown[i].node.node_type = "section"
                 THEN _format_section_node(shown[i].node, shown[i].key, FALSE)
                 ELSE IF shown[i].node.node_type = "definition"
                 THEN _format_definition_node(shown[i].node, shown[i].key)
                 ELSE _format_right_node(shown[i].node, shown[i].key)],
             KeyedCitations(nodes, counter),
             counter + Len(nodes))

\* variant: the entries are written but their keys are not recorded
_build_definitions_section_text_only(definitions, counter) ==
    Built([i \in 1..Len(definitions) |->
              Part("entry", definitions[i].content.term,
                   CitationKeyFor(counter + i), 150, 150)],
          EmptyDict,
          counter + Len(definitions))

\* **TERM**: definition [key]
_build_definitions_section(definitions, counter) ==
    Built([i \in 1..Len(definitions) |->
              Part("entry", definitions[i].content.term,
                   CitationKeyFor(counter + i), 150, 150)],
          KeyedCitations(definitions, counter),
          counter + Len(definitions))

fundamental_rights ==
    << "Right to Safety", "Right to be Informed", "Right to Choose",
       "Right to be Heard", "Right to Seek Redressal", "Right to Consumer Education" >>

\* right types in the order of their first right
RECURSIVE TypesInOrder(_)
TypesInOrder(rights) ==
    IF rights = <<>> THEN <<>>
    ELSE LET t == Head(rights).content.right_type
         IN <<t>> \o TypesInOrder(SelectSeq(Tail(rights),
                                            LAMBDA r : r.content.right_type # t))

\* the groups after the six entries: a title line, one entry per right of
\* the type, a blank line
RECURSIVE additional_rights(_, _, _)
additional_rights(types, rights, counter) ==
    IF types = <<>> THEN Built(<<>>, EmptyDict, counter)
    ELSE IF Head(types) = "consumer_right"
    THEN additional_rights(Tail(types), rights, counter)
    ELSE LET type_rights == SelectSeq(rights,
                                LAMBDA r : r.content.right_type = Head(types))
             rest == additional_rights(Tail(types), rights, counter + Len(type_rights))
         IN Built(<<Part("title", Head(types), "", 25, 0)>>
                  \o [i \in 1..Len(type_rights) |->
                        Part("entry", "right", CitationKeyFor(counter + i), 120, 120)]
                  \o rest.parts,
                  KeyedCitations(type_rights, counter) @@ rest.citations,
                  rest.counter)

_build_rights_section(rights, counter) ==
    IF rights = <<>> THEN Built(<<>>, EmptyDict, counter)
    ELSE LET more == additional_rights(TypesInOrder(rights), rights,
                                       counter + Len(fundamental_rights))
         IN Built(<<Part("title", "Fundamental Consumer Rights", "", 90, 0)>>
                  \o [i \in 1..Len(fundamental_rights) |->
                        Part("entry", fundamental_rights[i],
                             CitationKeyFor(counter + i), 130, 130)]
                  \o more.parts,
                  [k \in { CitationKeyFor(counter + i) : i \in 1..Len(fundamental_rights) }
                       |-> "Section 2, Consumer Protection Act, 2019"]
                  @@ more.citations,
                  more.counter)

_build_related_provisions(nodes, edges, counter) ==
    LET referenced_nodes == { edges[i].to_node : i \in 1..Len(edges) }
        keyed_nodes == SelectSeq(nodes, LAMBDA n : n.node_id \in referenced_nodes)
        keyed == [i \in 1..Len(keyed_nodes) |->
                    [node |-> keyed_nodes[i], key |-> CitationKeyFor(counter + i)]]
        shown == SelectSeq(keyed, LAMBDA e : e.node.node_type = "section")
    IN Built([i \in 1..Len(shown) |->
                 _format_section_node(shown[i].node, shown[i].key, TRUE)],
             KeyedCitations(keyed_nodes, counter),
             counter + Len(keyed_nodes))

\* chapters in the order of their first section
RECURSIVE ChaptersInOrder(_)
ChaptersInOrder(sections) ==
    IF sections = <<>> THEN <<>>
    ELSE LET c == Head(sections).content.chapter_title
         IN <<c>> \o ChaptersInOrder(SelectSeq(Tail(sections),
                                               LAMBDA x : x.content.chapter_title # c))

RECURSIVE chapter_parts(_, _)
chapter_parts(chapters, sections) ==
    IF chapters = <<>> THEN <<>>
    ELSE LET chapter_sections == SelectSeq(sections,
                                    LAMBDA x : x.content.chapter_title = Head(chapters))
             listed == Prefix(chapter_sections, 3)
         IN (IF Len(chapter_sections) > 1
             THEN <<Part("title", Head(chapters), "", 40, 0)>>
                  \o [i \in 1..Len(listed) |->
                        Part("line", "Section " \o listed[i].content.section_number, "", 60, 0)]
             ELSE <<>>)
            \o chapter_parts(Tail(chapters), sections)

_build_hierarchical_context(sections, counter) ==
    Built(chapter_parts(ChaptersInOrder(sections), sections), EmptyDict, counter)

_extract_provision_list(nodes) ==
    LET listed == SelectSeq(nodes, LAMBDA n : n.node_type \in {"section", "clause"})
    IN [i \in 1..Len(listed) |->
          IF listed[i].node_type = "section"
          THEN "Section " \o listed[i].content.section_number
          ELSE listed[i].content.parent_section \o ", Clause " \o listed[i].content.label]

_extract_hierarchical_list(sections) == ChaptersInOrder(sections)

RECURSIVE TextLen(_)
TextLen(parts) == IF parts = <<>> THEN 0 ELSE Head(parts).len + TextLen(Tail(parts))

\* the piece of text.split("===") that part k falls in: a header is its
\* own piece, the entries under it the next one
PieceOf(parts, k) ==
    LET headers == Cardinality({ j \in 1..k : parts[j].kind = "header" })
    IN IF parts[k].kind = "header" THEN 2 * headers - 1 ELSE 2 * headers

PieceAt(parts, i) ==
    LET at == SortedSeq({ k \in 1..Len(parts) : PieceOf(parts, k) = i })
    IN [j \in 1..Len(at) |-> parts[at[j]]]

TruncationNotice == Part("notice", "[Context truncated due to length limits]", "", 45, 0)

\* section[:n]: the parts that fit, then the head of the next one, which
\* keeps its key if the cut falls behind it
RECURSIVE CutAt(_, _)
CutAt(piece, n) ==
    IF piece = <<>> \/ n <= 0 THEN <<>>
    ELSE IF Head(piece).len <= n
    THEN <<Head(piece)>> \o CutAt(Tail(piece), n - Head(piece).len)
    ELSE << Part("fragment", Head(piece).label,
                 IF Head(piece).key_at > 0 /\ Head(piece).key_at <= n
                 THEN Head(piece).key ELSE "",
                 n, Head(piece).key_at) >>

RECURSIVE truncate_from(_, _, _, _)
truncate_from(parts, i, current_length, max_length) ==
    IF \A k \in 1..Len(parts) : PieceOf(parts, k) < i THEN <<>>
    ELSE LET section == PieceAt(parts, i)
             \* the piece of a header is the header without its two "==="
             section_length == IF i % 2 = 1 THEN TextLen(section) - 6
                               ELSE TextLen(section)
         IN IF i <= 2 \/ current_length + section_length < max_length
            THEN section \o truncate_from(parts, i + 1,
                                          current_length + section_length, max_length)
            ELSE LET remaining_space == max_length - current_length - 100
                 IN IF remaining_space > 0
                    THEN CutAt(section, remaining_space) \o <<TruncationNotice>>
                    ELSE <<>>

_truncate_context(parts, max_length) ==
    IF TextLen(parts) <= max_length THEN parts
    ELSE truncate_from(parts, 0, 0, max_length)

OfType(nodes, node_type) == SelectSeq(nodes, LAMBDA n : n.node_type = node_type)

\* the five _build_* calls of build_context, in order, with the counter
\* each one starts from
BuiltSections(gc, qi) ==
    LET primary == _build_primary_provisions(get_primary_nodes(gc), 0)
        defs == _build_definitions_section(OfType(gc.nodes, "definition"), primary.counter)
        rights == IF qi.intent_type = "rights_query" /\ OfType(gc.nodes, "right") # <<>>
                  THEN _build_rights_section(OfType(gc.nodes, "right"), defs.counter)
                  ELSE Built(<<>>, EmptyDict, defs.counter)
        related == _build_related_provisions(get_related_nodes(gc), gc.edges, rights.counter)
        hier == _build_hierarchical_context(OfType(gc.nodes, "section"), related.counter)
    IN [primary |-> primary, defs |-> defs, rights |-> rights,
        related |-> related, hier |-> hier]

\* "\n\n".join(context_parts): each section that has text, under its header
joined_text(gc, qi) ==
    LET b == BuiltSections(gc, qi)
        under(label, built) ==
            IF built.parts # <<>> THEN <<Header(label)>> \o built.parts ELSE <<>>
    IN under("PRIMARY LEGAL PROVISIONS", b.primary)
       \o under("LEGAL DEFINITIONS", b.defs)
       \o under("CONSUMER RIGHTS", b.rights)
       \o under("RELATED PROVISIONS", b.related)
       \o under("CONTEXTUAL INFORMATION", b.hier)

build_context(gc, qi, max_length) ==
    LET b == BuiltSections(gc, qi)
        kept(built) == IF built.parts # <<>> THEN built.citations ELSE EmptyDict
        defined == OfType(gc.nodes, "definition")
    IN [ formatted_text |-> _truncate_context(joined_text(gc, qi), max_length),
         citations |-> kept(b.hier) @@ kept(b.related) @@ kept(b.rights)
                       @@ kept(b.defs) @@ kept(b.primary),
         metadata |-> [intent_type |-> qi.intent_type, confidence |-> gc.confidence,
                       node_count |-> Len(gc.nodes), edge_count |-> Len(gc.edges),
                       audience |-> ""],
         primary_provisions |-> _extract_provision_list(get_primary_nodes(gc)),
         related_provisions |-> _extract_provision_list(get_related_nodes(gc)),
         definitions |-> [i \in 1..Len(defined) |-> defined[i].content.term],
         hierarchical_context |-> _extract_hierarchical_list(OfType(gc.nodes, "section")) ]

\* self.citation_counter when build_context returns
citation_counter_after_build(gc, qi) == BuiltSections(gc, qi).hier.counter

\* one call of _get_next_citation_key: the node the key is for ("" for the
\* six fixed lines of the rights section) and whether the node's text was
\* appended to the parts of its section
Allocation(node_id, emitted) == [node_id |-> node_id, emitted |-> emitted]

RECURSIVE additional_allocations(_, _)
additional_allocations(types, rights) ==
    IF types = <<>> THEN <<>>
    ELSE IF Head(types) = "consumer_right"
    THEN additional_allocations(Tail(types), rights)
    ELSE LET type_rights == SelectSeq(rights,
                                LAMBDA r : r.content.right_type = Head(types))
         IN [i \in 1..Len(type_rights) |-> Allocation(type_rights[i].node_id, TRUE)]
            \o additional_allocations(Tail(types), rights)

\* the calls of the four _build_* methods that issue keys, in order
key_allocations(gc, qi) ==
    LET primary == get_primary_nodes(gc)
        definitions == OfType(gc.nodes, "definition")
        rights == OfType(gc.nodes, "right")
        referenced_nodes == { gc.edges[i].to_node : i \in 1..Len(gc.edges) }
        related == SelectSeq(get_related_nodes(gc),
                             LAMBDA n : n.node_id \in referenced_nodes)
    IN [i \in 1..Len(primary) |->
           Allocation(primary[i].node_id,
                      primary[i].node_type \in {"section", "definition", "right"})]
       \o [i \in 1..Len(definitions) |-> Allocation(definitions[i].node_id, TRUE)]
       \o (IF qi.intent_type = "rights_query" /\ rights # <<>>
           THEN [i \in 1..Len(fundamental_rights) |-> Allocation("", TRUE)]
                \o additional_allocations(TypesInOrder(rights), rights)
           ELSE <<>>)
       \o [i \in 1..Len(related) |->
             Allocation(related[i].node_id, related[i].node_type = "section")]

_simplify_for_citizens(text) ==
    [i \in 1..Len(text) |->
        IF text[i].kind # "header" THEN text[i]
        ELSE IF text[i].label = "PRIMARY LEGAL PROVISIONS"
        THEN [text[i] EXCEPT !.label = "RELEVANT LAWS THAT APPLY TO YOUR SITUATION"]
        ELSE IF text[i].label = "LEGAL DEFINITIONS"
        THEN [text[i] EXCEPT !.label = "WHAT THESE LEGAL TERMS MEAN"]
        ELSE IF text[i].label = "CONSUMER RIGHTS"
        THEN [text[i] EXCEPT !.label = "YOUR RIGHTS AS A CONSUMER"]
        ELSE text[i]]

\* one "key: citation" line per key, in the order the keys were issued
_enhance_for_lawyers(text, cits, counter) ==
    IF DOMAIN cits = {} THEN text
    ELSE LET issued == SortedSeq({ n \in 1..counter : CitationKeyFor(n) \in DOMAIN cits })
         IN text \o <<Header("CITATION SUMMARY")>>
            \o [i \in 1..Len(issued) |->
                  Part("line", CitationKeyFor(issued[i]) \o ": "
                               \o cits[CitationKeyFor(issued[i])],
                       CitationKeyFor(issued[i]), 60, 12)]

_enhance_for_judges(text) ==
    << Header("JUDICIAL CONTEXT"),
       Part("line", "The following provisions are relevant for judicial consideration:",
            "", 70, 0) >> \o text

format_for_audience(context, audience, counter) ==
    [context EXCEPT
        !.formatted_text =
            IF audience = "citizen" THEN _simplify_for_citizens(context.formatted_text)
            ELSE IF audience = "lawyer"
            THEN _enhance_for_lawyers(context.formatted_text, context.citations, counter)
            ELSE IF audience = "judge" THEN _enhance_for_judges(context.formatted_text)
            ELSE context.formatted_text,
        !.metadata = [context.metadata EXCEPT !.audience = audience]]

\* ------------------------------------------------------------------------
\* GraphRAGEngine.process_query
\* ------------------------------------------------------------------------
Intent(intent_type, section_numbers, legal_terms, confidence, original_query) ==
    [intent_type |-> intent_type, section_numbers |-> section_numbers,
     legal_terms |-> legal_terms, confidence |-> confidence,
     original_query |-> original_query]

IntentConfidences == {60, 90}

\* what parse_query hands to retrieval
Intents ==
    { Intent("definition_lookup", <<>>, terms, c, <<"what", "is">> \o terms) :
        terms \in {<<"Consumer">>, <<"defect">>, <<"complaint">>, <<"widget">>},
        c \in IntentConfidences }
    \cup { Intent("section_retrieval", numbers, <<>>, c, <<"section">> \o numbers) :
        numbers \in {<<"2">>, <<"35">>, <<"2", "35">>, <<"99">>},
        c \in IntentConfidences }
    \cup { Intent("rights_query", <<>>, <<>>, c, <<"what", "are", "my", "rights">>) :
        c \in IntentConfidences }
    \cup { Intent("scenario_analysis", <<>>, <<>>, c, query) :
        query \in {<<"defective", "phone">>, <<"misleading", "advertisement">>,
                   <<"refund">>, <<"poor", "service">>, <<"help">>},
        c \in IntentConfidences }

Audiences == {"citizen", "lawyer", "judge"}

\* time.time() - start_time, in milliseconds
ProcessingTimes == {1, 2}

\* the steps of a request that can raise
EngineSteps == {"parse", "retrieve", "assemble"}
StepFailures == {"none"} \cup EngineSteps \cup {"score", "citations"}

\* the minimal response of the except branch
ErrorIntent(query) == Intent("scenario_analysis", <<>>, <<>>, 0, query)

ErrorGraphContext ==
    [ nodes |-> <<>>, edges |-> <<>>, citations |-> <<>>, confidence |-> 0,
      traversal_path |-> <<>> ]

ErrorLLMContext ==
    [ formatted_text |-> <<Part("notice", "Error processing query", "", 50, 0)>>,
      citations |-> EmptyDict,
      metadata |-> [error |-> TRUE, confidence |-> 0],
      primary_provisions |-> <<>>, related_provisions |-> <<>>,
      definitions |-> <<>>, hierarchical_context |-> <<>> ]

\* ------------------------------------------------------------------------
\* CitationValidator
\* ------------------------------------------------------------------------
\* both the bare number and "Section <number>" are indexed
load_valid_sections(numbers) == numbers \cup { "Section " \o n : n \in numbers }

\* term.lower() and "Definition of <term>" are indexed
load_valid_definitions(terms) == terms \cup { "Definition of " \o t : t \in terms }

\* the key inside "[Citation: ...]"
CitationKey(tok) == tok.a \o tok.b

\* r'\[Citation: ([^\]]+)\]'
extract_citation_references(text) ==
    LET found == SelectSeq(text, LAMBDA t : t.kind = "cite")
    IN [i \in 1..Len(found) |-> CitationKey(found[i])]

_is_valid_knowledge_graph_reference(tok, vsections, vdefinitions) ==
    IF tok.a = "Section "
    THEN tok.b \in vsections \/ ("Section " \o tok.b) \in vsections
    ELSE IF tok.a = "Definition of "
            /\ \E term \in vdefinitions : OccursIn(term, tok.b)
    THEN TRUE
    ELSE IF tok.a = "Clause "
    THEN TRUE
    ELSE FALSE

\* the three section surface forms; a citation "[Citation: Section N]"
\* carries the first one too
section_patterns == <<"Section", "Sec.", "§">>

SectionPattern(tok) ==
    IF tok.kind = "secref" THEN tok.a
    ELSE IF tok.kind = "cite" /\ tok.a = "Section " THEN "Section"
    ELSE "none"

\* match.group(1): the number with its parenthetical part
SectionRef(tok) == IF tok.kind = "secref" THEN tok.b \o tok.c ELSE tok.b
\* the number without its parenthetical part
BaseSection(tok) == tok.b
\* match.group(0)
FullMatch(tok) == SectionPattern(tok) \o " " \o SectionRef(tok)

SectionMatches(text, pattern) ==
    SelectSeq(text, LAMBDA t : SectionPattern(t) = pattern)

\* variant: only the first surface form is scanned
_find_fabricated_sections_first_pattern(text, vsections) ==
    LET hits == SelectSeq(SectionMatches(text, section_patterns[1]),
                    LAMBDA t : /\ SectionRef(t) \notin vsections
                               /\ ("Section " \o SectionRef(t)) \notin vsections)
    IN [i \in 1..Len(hits) |-> FullMatch(hits[i])]

_find_fabricated_sections(text, vsections) ==
    LET fab(pattern) ==
            LET hits == SelectSeq(SectionMatches(text, pattern),
                            LAMBDA t : /\ SectionRef(t) \notin vsections
                                       /\ ("Section " \o SectionRef(t)) \notin vsections)
            IN [i \in 1..Len(hits) |-> FullMatch(hits[i])]
    IN fab(section_patterns[1]) \o fab(section_patterns[2]) \o fab(section_patterns[3])

\* a "[Citation: ...]" token within the window around position i
has_nearby_citation(text, i) ==
    \E j \in 1..Len(text) : (j - i) \in -1..1 /\ text[j].kind = "cite"

_find_uncited_legal_claims(text) ==
    SortedSeq({ i \in 1..Len(text) :
                  text[i].kind = "claim" /\ ~has_nearby_citation(text, i) })

validate_citations(text, cits, vsections, vdefinitions) ==
    LET found == SelectSeq(text, LAMBDA t : t.kind = "cite")
        bad == SelectSeq(found, LAMBDA t :
                   /\ CitationKey(t) \notin cits
                   /\ ~_is_valid_knowledge_graph_reference(t, vsections, vdefinitions))
        uncited == _find_uncited_legal_claims(text)
        fabricated == _find_fabricated_sections(text, vsections)
    IN [i \in 1..Len(bad) |-> Issue("error", "invalid_citation", CitationKey(bad[i]))]
       \o [i \in 1..Len(uncited) |-> Issue("warning", "uncited_claim", "claim")]
       \o [i \in 1..Len(fabricated) |-> Issue("error", "fabricated_section", fabricated[i])]

\* ------------------------------------------------------------------------
\* ContentValidator
\* ------------------------------------------------------------------------
\* the phrases of PredictiveTokens that one of the seven prohibited_phrases
\* patterns matches: r'\bi\s+(?:predict|...)' and r'...|court\s+will\s+find'
ProhibitedMatch(tok) ==
    tok.kind = "predictive" /\ tok.a \in {"I predict", "court will find"}

_check_prohibited_language(text) ==
    LET hits == SelectSeq(text, ProhibitedMatch)
    IN [i \in 1..Len(hits) |-> Issue("error", "predictive_language", hits[i].a)]

_check_disclaimers(text) ==
    IF \E i \in 1..Len(text) : text[i].kind = "disclaimer"
    THEN <<>>
    ELSE <<Issue("warning", "missing_disclaimer", "")>>

_check_hallucinations(text) ==
    LET hits == SelectSeq(text, LAMBDA t : t.kind = "hallucination")
    IN [i \in 1..Len(hits) |-> Issue("error", "hallucinated_content", hits[i].a)]

validate_content(text) ==
    _check_prohibited_language(text) \o _check_disclaimers(text)
    \o _check_hallucinations(text)

\* ------------------------------------------------------------------------
\* GraphContext: the nodes retrieval returned for the query
\* ------------------------------------------------------------------------
SectionNode(n) == [node_type |-> "section", id |-> n]
ClauseNode(n) == [node_type |-> "clause", id |-> "CPA2019_" \o n \o "_a"]

\* the sections retrieved and, as section_retrieval attaches them, the
\* clauses of the sections that have any (section 2 has clause (a))
RetrievedNodes(S) ==
    { SectionNode(n) : n \in S } \cup { ClauseNode(n) : n \in S \cap {"2"} }

\* ------------------------------------------------------------------------
\* ResponseValidator
\* ------------------------------------------------------------------------
\* confidence_thresholds['very_low']
very_low == 50
\* CitationConstraints.max_unsupported_claims
max_unsupported_claims == 0

_identify_unsupported_claims_enhanced(text) ==
    SortedSeq({ i \in 1..Len(text) : /\ text[i].kind = "claim"
                                      /\ ~has_nearby_citation(text, i)
                                      /\ text[i].b # "supported" })

_identify_fabricated_references(text, nodes) ==
    LET available_sections == { n.id : n \in { m \in nodes : m.node_type = "section" } }
        available_clauses == { n.id : n \in { m \in nodes : m.node_type = "clause" } }
        section_hits ==
            { t \in Range(text) : /\ SectionPattern(t) # "none"
                                  /\ SectionRef(t) \notin available_sections
                                  /\ BaseSection(t) \notin available_sections }
        clause_hits ==
            { t \in Range(text) :
                /\ t.kind = "cite" /\ t.a = "Clause "
                /\ ~\E clause_id \in available_clauses : OccursIn(CitationKey(t), clause_id) }
    IN { FullMatch(t) : t \in section_hits } \cup { CitationKey(t) : t \in clause_hits }

critical_types == {"fabricated_section", "hallucinated_content", "predictive_language"}

_determine_validity(issues, confidence, fabricated_references) ==
    IF fabricated_references # {} THEN FALSE
    ELSE IF \E i \in 1..Len(issues) :
               issues[i].severity = "error" /\ issues[i].issue_type \in critical_types
    THEN FALSE
    ELSE IF confidence < very_low THEN FALSE
    ELSE TRUE

correctable_types == {"missing_disclaimer", "formatting_issue"}

\* variant: correctable as soon as one correctable issue is present
_can_auto_correct_any(issues) ==
    \E i \in 1..Len(issues) : issues[i].issue_type \in correctable_types

_can_auto_correct(issues) ==
    ~\E i \in 1..Len(issues) :
        issues[i].severity = "error" /\ issues[i].issue_type \notin correctable_types

\* the disclaimer paragraph appended by auto-correction
StandardDisclaimer ==
    Tok("disclaimer", "Disclaimer: This information is provided for educational purposes only", "", "")

RECURSIVE _attempt_auto_correction(_, _)
_attempt_auto_correction(text, issues) ==
    IF issues = <<>> THEN text
    ELSE _attempt_auto_correction(
            IF Head(issues).issue_type = "missing_disclaimer"
            THEN Append(text, StandardDisclaimer) ELSE text,
            Tail(issues))

validate_response(text, cits, vsections, vdefinitions, nodes, confidence, strict) ==
    LET all_issues == validate_citations(text, cits, vsections, vdefinitions)
                      \o validate_content(text)
        citation_count == Len(extract_citation_references(text))
        unsupported_claims == _identify_unsupported_claims_enhanced(text)
        fabricated_references == _identify_fabricated_references(text, nodes)
        valid0 == _determine_validity(all_issues, confidence, fabricated_references)
        strict_hit == strict /\ Len(unsupported_claims) > 0
        issues == IF strict_hit
                  THEN Append(all_issues, Issue("error", "unsupported_claims", ""))
                  ELSE all_issues
        is_valid == /\ valid0
                    /\ ~strict_hit
                    /\ ~(Len(unsupported_claims) > max_unsupported_claims)
        correct == ~is_valid /\ _can_auto_correct(issues)
    IN [ is_valid |-> is_valid,
         confidence_score |-> confidence,
         issues |-> issues,
         citation_count |-> citation_count,
         unsupported_claims |-> unsupported_claims,
         fabricated_references |-> fabricated_references,
         has_corrected_response |-> correct,
         corrected_response |-> IF correct
                                THEN _attempt_auto_correction(text, issues)
                                ELSE <<>> ]

\* ValidationResult.has_errors
has_errors(r) == \E i \in 1..Len(r.issues) : r.issues[i].severity = "error"

\* ValidationResult.should_block_response
should_block_response(r) ==
    has_errors(r) \/ r.confidence_score < 50 \/ r.fabricated_references # {}

\* ------------------------------------------------------------------------
\* web_interface/app.py: POST /api/v1/query
\* ------------------------------------------------------------------------
RECURSIVE Join(_)
Join(words) == IF words = <<>> THEN ""
               ELSE IF Len(words) = 1 THEN Head(words)
               ELSE Head(words) \o " " \o Join(Tail(words))

NoProvisionsNotice ==
    << Tok("notice", "I couldn't find specific information about your query in the Consumer Protection Act 2019. Please try rephrasing your question or ask about consumer rights, definitions, or specific sections.", "", "") >>

_generate_fallback_response(gc) ==
    IF gc.nodes # <<>>
    THEN LET node == gc.nodes[1]
             node_text == IF "text" \in DOMAIN node.content
                          THEN Join(node.content.text) ELSE "No text available"
         IN << Tok("notice", "Based on the Consumer Protection Act 2019:", "", ""),
               Tok("excerpt", node_text, "", ""),
               Tok("notice", "[This is a direct excerpt from the legal text. For detailed explanation, please try again later.]", "", "") >>
    ELSE << Tok("notice", "I couldn't find specific information about your query in the Consumer Protection Act 2019. Please try rephrasing your question.", "", "") >>

_build_citations(gc) ==
    LET cited == SelectSeq(gc.nodes, LAMBDA n : "section_id" \in DOMAIN n.content)
    IN [i \in 1..Len(cited) |->
          [section_id |-> cited[i].content.section_id,
           section_number |-> cited[i].content.section_number,
           title |-> cited[i].content.title,
           act |-> cited[i].content.act]]

\* the section numbers and clause ids the validator reads off the
\* retrieved nodes
available_nodes(nodes) ==
    { SectionNode(n.content.section_number) : n \in Range(OfType(nodes, "section")) }
    \cup { [node_type |-> "clause", id |-> n.content.clause_id] :
             n \in Range(OfType(nodes, "clause")) }

NoResponse ==
    [ status |-> "none", response |-> <<>>, citations |-> <<>>,
      confidence_score |-> 0, requires_review |-> FALSE ]

\* the texts a provider returns in the model
GeneratedTokens ==
    { Tok("predictive", "I predict", "", ""), Tok("cite", "", "Citation-1", ""),
      DisclaimerToken, TextToken }

GeneratedTexts == { t \in Responses : t # <<>> /\ Range(t) \subseteq GeneratedTokens }

LLMBehaviours ==
    { [outcome |-> "raises", content |-> <<>>] }
    \cup { [outcome |-> "returns", content |-> t] : t \in GeneratedTexts }

\* ------------------------------------------------------------------------
\* ConfidenceScorer. Component scores and weights are hundredths, the
\* overall score is in units of 0.0001, so that the weighted average of
\* hundredths by hundredths is exact.
\* ------------------------------------------------------------------------
Components(gc, cd, rc, rq, tv, aa) ==
    [ graph_coverage |-> gc, citation_density |-> cd,
      reasoning_chain_score |-> rc, response_quality |-> rq,
      temporal_validity |-> tv, audience_appropriateness |-> aa ]

Weights(gc, cd, rc, rq, tv, aa) ==
    [ graph_coverage |-> gc, citation_density |-> cd, reasoning_chain |-> rc,
      response_quality |-> rq, temporal_validity |-> tv,
      audience_appropriateness |-> aa ]

\* self.audience_weights.get(audience, self.audience_weights['citizen'])
audience_weights(aud) ==
    IF aud = "lawyer" THEN Weights(30, 30, 20, 15, 5, 0)
    ELSE IF aud = "judge" THEN Weights(35, 35, 25, 5, 0, 0)
    ELSE Weights(25, 20, 15, 25, 10, 5)

VERY_HIGH == 9000
HIGH == 8000
MEDIUM == 7000
LOW == 5000

get_weighted_average_penalising_citations(c, weights) ==
    LET total_weight == weights.graph_coverage + weights.citation_density
                          + weights.reasoning_chain + weights.response_quality
                          + weights.temporal_validity
                          + weights.audience_appropriateness
        weighted_sum == c.graph_coverage * weights.graph_coverage
                          + (100 - c.citation_density) * weights.citation_density
                          + c.reasoning_chain_score * weights.reasoning_chain
                          + c.response_quality * weights.response_quality
                          + c.temporal_validity * weights.temporal_validity
                          + c.audience_appropriateness
                              * weights.audience_appropriateness
    IN  IF total_weight = 0 THEN 0 ELSE (weighted_sum * 100) \div total_weight

get_weighted_average(c, weights) ==
    LET total_weight == weights.graph_coverage + weights.citation_density
                          + weights.reasoning_chain + weights.response_quality
                          + weights.temporal_validity
                          + weights.audience_appropriateness
        weighted_sum == c.graph_coverage * weights.graph_coverage
                          + c.citation_density * weights.citation_density
                          + c.reasoning_chain_score * weights.reasoning_chain
                          + c.response_quality * weights.response_quality
                          + c.temporal_validity * weights.temporal_validity
                          + c.audience_appropriateness
                              * weights.audience_appropriateness
    IN  IF total_weight = 0 THEN 0 ELSE (weighted_sum * 100) \div total_weight

_determine_confidence_level(overall) ==
    IF overall >= VERY_HIGH THEN "very_high"
    ELSE IF overall >= HIGH THEN "high"
    ELSE IF overall >= MEDIUM THEN "medium"
    ELSE IF overall >= LOW THEN "low"
    ELSE "very_low"

ReviewReason(cond, reason) == IF cond THEN <<reason>> ELSE <<>>

_requires_human_review_overall_only(overall, c, aud, qi) ==
    LET review_reasons == ReviewReason(overall < HIGH, "below_threshold")
    IN  [ requires_review |-> Len(review_reasons) > 0,
          review_reasons |-> review_reasons ]

_requires_human_review(overall, c, aud, qi) ==
    LET review_reasons ==
            ReviewReason(overall < HIGH, "below_threshold")
            \o ReviewReason(aud = "judge" /\ overall < VERY_HIGH,
                            "judge_requires_very_high")
            \o ReviewReason(c.graph_coverage < 30, "low_graph_coverage")
            \o ReviewReason(c.citation_density < 40, "low_citation_density")
            \o ReviewReason(qi.intent_type = "scenario_analysis"
                              /\ c.reasoning_chain_score < 60,
                            "scenario_low_reasoning")
            \o ReviewReason(c.response_quality < 50, "low_response_quality")
    IN  [ requires_review |-> Len(review_reasons) > 0,
          review_reasons |-> review_reasons ]

NoConfidenceScore ==
    [ scored |-> FALSE, overall_score |-> 0, confidence_level |-> "",
      requires_human_review |-> FALSE, review_reasons |-> <<>> ]

\* score_response, given the components _calculate_confidence_components
\* returned
score_response(c, aud, qi) ==
    LET overall == get_weighted_average(c, audience_weights(aud))
        review == _requires_human_review(overall, c, aud, qi)
    IN  [ scored |-> TRUE, overall_score |-> overall,
          confidence_level |-> _determine_confidence_level(overall),
          requires_human_review |-> review.requires_review,
          review_reasons |-> review.review_reasons ]


Requests ==
    [ query_intent : { qi \in Intents : qi.confidence = 90 },
      audience : Audiences ]

\* the components of a well cited answer with a short reasoning chain, and
\* those of a thinly supported answer
EndpointComponents ==
    { Components(100, 100, 50, 65, 100, 80), Components(55, 10, 80, 60, 100, 80) }

\* ------------------------------------------------------------------------
\* Specifications
\* ------------------------------------------------------------------------
ConfidenceScores == {40, 90}
CitationMaps == { {}, {"Citation-1"} }

NoResult ==
    [ is_valid |-> FALSE, confidence_score |-> 0, issues |-> <<>>,
      citation_count |-> 0, unsupported_claims |-> <<>>,
      fabricated_references |-> {}, has_corrected_response |-> FALSE,
      corrected_response |-> <<>> ]

NoIntent == Intent("", <<>>, <<>>, 0, <<>>)

NoGraphContext ==
    [ nodes |-> <<>>, edges |-> <<>>, citations |-> <<>>, confidence |-> 0,
      traversal_path |-> <<>> ]

NoLLMContext ==
    [ formatted_text |-> <<>>, citations |-> EmptyDict,
      metadata |-> [intent_type |-> "", confidence |-> 0, node_count |-> 0,
                    edge_count |-> 0, audience |-> ""],
      primary_provisions |-> <<>>, related_provisions |-> <<>>,
      definitions |-> <<>>, hierarchical_context |-> <<>> ]

\* the variables of the components a specification leaves out
ValidatorIdle ==
    /\ response = <<>>
    /\ citations = {}
    /\ valid_sections = {}
    /\ valid_definitions = {}
    /\ graph_nodes = {}
    /\ confidence_score = 0
    /\ require_all_claims = TRUE
    /\ validated = FALSE
    /\ result = NoResult

GraphIdle ==
    /\ kg_files = EmptyKG @@ [malformed |-> FALSE]
    /\ load_state = "unloaded"
    /\ kg = EmptyKG
    /\ index = EmptyIndex
    /\ kg_validation = NoValidation

EngineIdle ==
    /\ max_context_length = 8000
    /\ citation_counter = 0
    /\ query_count = 0
    /\ total_processing_time = 0
    /\ query_intent = NoIntent
    /\ graph_context = NoGraphContext
    /\ llm_context = NoLLMContext

Workers == {"worker1", "worker2"}

CountersIdle ==
    /\ worker_pc = [w \in Workers |-> "idle"]
    /\ worker_reg = [w \in Workers |-> 0]
    /\ worker_time = [w \in Workers |-> 0]
    /\ worker_calls = [w \in Workers |-> 0]

NotCalled == [called |-> FALSE, nodes |-> <<>>]

TraversalIdle ==
    /\ trav_request = [start_node |-> "", relation_types |-> {}, max_depth |-> 0]
    /\ trav_pc = "idle"
    /\ queue = <<>>
    /\ visited = {}
    /\ result_nodes = <<>>
    /\ expanded = <<>>
    /\ hierarchy = NotCalled

ScorerIdle ==
    /\ components = Components(0, 0, 0, 0, 0, 0)
    /\ confidence_score_result = NoConfidenceScore

ManagerIdle ==
    /\ providers = <<>>
    /\ provider_behaviour = <<>>
    /\ mgr_pc = "idle"
    /\ provider_order = <<>>
    /\ attempts = 0
    /\ last_error = "none"
    /\ calls = <<>>
    /\ llm_result = 0
    /\ total_requests = 0
    /\ successful_requests = 0
    /\ failed_requests = 0

NotParsed ==
    [ parsed |-> FALSE, intent_type |-> "", section_numbers |-> {},
      legal_terms |-> {}, confidence |-> 0, original_query |-> <<>> ]

ParserIdle ==
    /\ user_query = <<>>
    /\ parsed_intent = NotParsed

BuilderIdle ==
    /\ builder_pc = "idle"
    /\ context_parts = <<>>
    /\ key_log = <<>>

TemporalIdle == temporal_validity = -1

AssemblyIdle ==
    /\ assembly_pc = [w \in Workers |-> "idle"]
    /\ assembly_reg = [w \in Workers |-> 0]
    /\ keys_needed = [w \in Workers |-> 0]
    /\ issued_keys = [w \in Workers |-> <<>>]

OtherIdle ==
    CountersIdle /\ TraversalIdle /\ ScorerIdle /\ ManagerIdle /\ ParserIdle /\ BuilderIdle /\ TemporalIdle /\ AssemblyIdle

ApiIdle ==
    /\ request = [query_intent |-> NoIntent, audience |-> ""]
    /\ llm_behaviour = [outcome |-> "raises", content |-> <<>>]
    /\ llm_outcome = "not_called"
    /\ api_response = NoResponse
    /\ step_failure = "none"

\* --- the validator: the inputs of one validate_response call are drawn
\* --- in the initial state, Validate applies the function
InitValidator ==
    /\ response \in Responses
    /\ citations \in CitationMaps
    /\ valid_sections = load_valid_sections(GraphSectionNumbers)
    /\ valid_definitions = load_valid_definitions(GraphDefinitionTerms)
    /\ graph_nodes \in { RetrievedNodes(S) : S \in SUBSET GraphSectionNumbers }
    /\ confidence_score \in ConfidenceScores
    /\ require_all_claims \in BOOLEAN
    /\ validated = FALSE
    /\ result = NoResult
    /\ GraphIdle /\ EngineIdle /\ ApiIdle /\ OtherIdle

Validate ==
    /\ ~validated
    /\ validated' = TRUE
    /\ result' = validate_response(response, citations, valid_sections,
                                   valid_definitions, graph_nodes,
                                   confidence_score, require_all_claims)
    /\ UNCHANGED <<response, citations, valid_sections, valid_definitions,
                   graph_nodes, confidence_score, require_all_claims>>
    /\ UNCHANGED <<graphVars, engineVars, apiVars, otherVars>>

NextValidator == Validate

SpecValidator == InitValidator /\ [][NextValidator]_vars

\* --- the graph load: the files are drawn in the initial state
InitLoad ==
    /\ kg_files \in KGFiles
    /\ load_state = "unloaded"
    /\ kg = EmptyKG
    /\ index = EmptyIndex
    /\ kg_validation = NoValidation
    /\ ValidatorIdle /\ EngineIdle /\ ApiIdle /\ OtherIdle

NextLoad ==
    \/ _load_knowledge_graph /\ UNCHANGED <<validatorVars, engineVars, apiVars, otherVars>>
    \/ validate_knowledge_graph /\ UNCHANGED <<validatorVars, engineVars, apiVars, otherVars>>

SpecLoad == InitLoad /\ [][NextLoad]_vars

\* --- the engine on a loaded graph
LoadedKG(f) ==
    [ sections |-> f.sections, clauses |-> f.clauses, definitions |-> f.definitions,
      rights |-> f.rights, contains_edges |-> f.contains_edges,
      references_edges |-> f.references_edges, defines_edges |-> f.defines_edges ]

EngineKGFiles ==
    [ sections : SubLists(AllSections),
      clauses : {AllClauses},
      definitions : SubLists(AllDefinitions),
      rights : SubLists(AllRights),
      contains_edges : {<<[parent |-> "CPA2019_2", child |-> "CPA2019_2_a"]>>},
      references_edges :
        {<<[from |-> "CPA2019_35", to |-> "CPA2019_2", reference_type |-> "references"]>>},
      defines_edges : {<<[source |-> "CPA2019_2", target |-> "DEF_consumer"]>>},
      malformed : {FALSE} ]

MaxContextLengths == {8000, 700}

GraphLoaded(files) ==
    /\ kg_files \in files
    /\ load_state = "loaded"
    /\ kg = LoadedKG(kg_files)
    /\ index = _create_indices(LoadedKG(kg_files))
    /\ kg_validation = NoValidation

EngineRequests == [ query_intent : Intents, audience : Audiences ]

\* one query, drawn in the initial state, is put to the engine up to
\* MaxQueries times
InitEngine ==
    /\ GraphLoaded(EngineKGFiles)
    /\ max_context_length \in MaxContextLengths
    /\ citation_counter = 0
    /\ query_count = 0
    /\ total_processing_time = 0
    /\ query_intent = NoIntent
    /\ graph_context = NoGraphContext
    /\ llm_context = NoLLMContext
    /\ request \in EngineRequests
    /\ llm_behaviour = [outcome |-> "raises", content |-> <<>>]
    /\ llm_outcome = "not_called"
    /\ api_response = NoResponse
    /\ step_failure = "none"
    /\ ValidatorIdle /\ OtherIdle

GraphRAGEngine_process_query ==
    /\ query_count < MaxQueries
    /\ query_intent' = IF step_failure \in EngineSteps
                       THEN ErrorIntent(request.query_intent.original_query)
                       ELSE request.query_intent
    /\ graph_context' = IF step_failure \in EngineSteps THEN ErrorGraphContext
                        ELSE retrieve_context(index, kg, query_intent')
    \* build_context resets the counter before it issues keys
    /\ citation_counter' =
          IF step_failure \in {"parse", "retrieve"} THEN citation_counter
          ELSE IF step_failure = "assemble" THEN 0
          ELSE citation_counter_after_build(graph_context', query_intent')
    /\ llm_context' = IF step_failure \in EngineSteps THEN ErrorLLMContext
                      ELSE format_for_audience(
                             build_context(graph_context', query_intent',
                                           max_context_length),
                             request.audience, citation_counter')
    /\ query_count' = IF step_failure \in EngineSteps THEN query_count
                      ELSE query_count + 1
    /\ \E processing_time \in ProcessingTimes :
          total_processing_time' =
              IF step_failure \in EngineSteps THEN total_processing_time
              ELSE total_processing_time + processing_time
    /\ UNCHANGED <<max_context_length, graphVars, validatorVars, apiVars, otherVars>>

NextEngine == GraphRAGEngine_process_query

SpecEngine == InitEngine /\ [][NextEngine]_vars

\* --- the query endpoint: the request, what the provider does and the
\* --- scores are drawn in the initial state, process_query answers
EndpointKGFiles ==
    [ sections : SubLists(AllSections),
      clauses : {AllClauses},
      definitions : {<<DefConsumer>>, AllDefinitions},
      rights : {AllRights},
      contains_edges : {<<[parent |-> "CPA2019_2", child |-> "CPA2019_2_a"]>>},
      references_edges :
        {<<[from |-> "CPA2019_35", to |-> "CPA2019_2", reference_type |-> "references"]>>},
      defines_edges : {<<[source |-> "CPA2019_2", target |-> "DEF_consumer"]>>},
      malformed : {FALSE} ]

InitEndpoint ==
    /\ GraphLoaded(EndpointKGFiles)
    /\ max_context_length = 8000
    /\ citation_counter = 0
    /\ query_count = 0
    /\ total_processing_time = 0
    /\ query_intent = NoIntent
    /\ graph_context = NoGraphContext
    /\ llm_context = NoLLMContext
    /\ request \in Requests
    /\ llm_behaviour \in LLMBehaviours
    /\ components \in EndpointComponents
    /\ confidence_score_result = NoConfidenceScore
    /\ llm_outcome = "not_called"
    /\ api_response = NoResponse
    /\ step_failure = "none"
    /\ response = <<>>
    /\ citations = {}
    /\ valid_sections =
          load_valid_sections({ x.section_number : x \in Range(kg_files.sections) })
    /\ valid_definitions =
          load_valid_definitions({ Lower(d.term) : d \in Range(kg_files.definitions) })
    /\ graph_nodes = {}
    /\ confidence_score \in ConfidenceScores
    /\ require_all_claims = TRUE
    /\ validated = FALSE
    /\ result = NoResult
    /\ CountersIdle /\ TraversalIdle /\ ManagerIdle /\ ParserIdle /\ BuilderIdle /\ TemporalIdle /\ AssemblyIdle

process_query ==
    /\ api_response.status = "none"
    \* graphrag_engine.process_query
    /\ query_intent' = IF step_failure \in EngineSteps
                       THEN ErrorIntent(request.query_intent.original_query)
                       ELSE request.query_intent
    /\ graph_context' = IF step_failure \in EngineSteps THEN ErrorGraphContext
                        ELSE retrieve_context(index, kg, query_intent')
    \* build_context resets the counter before it issues keys
    /\ citation_counter' =
          IF step_failure \in {"parse", "retrieve"} THEN citation_counter
          ELSE IF step_failure = "assemble" THEN 0
          ELSE citation_counter_after_build(graph_context', query_intent')
    /\ llm_context' = IF step_failure \in EngineSteps THEN ErrorLLMContext
                      ELSE format_for_audience(
                             build_context(graph_context', query_intent',
                                           max_context_length),
                             request.audience, citation_counter')
    /\ query_count' = IF step_failure \in EngineSteps THEN query_count
                      ELSE query_count + 1
    /\ \E processing_time \in ProcessingTimes :
          total_processing_time' =
              IF step_failure \in EngineSteps THEN total_processing_time
              ELSE total_processing_time + processing_time
    \* generation and validation
    /\ llm_outcome' = IF llm_context'.primary_provisions = <<>> THEN "not_called"
                      ELSE IF llm_behaviour.outcome = "returns" THEN "returned"
                      ELSE "raised"
    /\ IF llm_outcome' = "returned"
       THEN /\ response' = llm_behaviour.content
            /\ citations' = DOMAIN llm_context'.citations
            /\ graph_nodes' = available_nodes(graph_context'.nodes)
            /\ validated' = TRUE
            /\ result' = validate_response(response', citations', valid_sections,
                                           valid_definitions, graph_nodes',
                                           confidence_score, require_all_claims)
       ELSE UNCHANGED <<response, citations, graph_nodes, validated, result>>
    \* confidence_scorer.score_response
    /\ confidence_score_result' =
          IF step_failure = "score" THEN confidence_score_result
          ELSE score_response(components, request.audience, query_intent')
    \* an exception of the scorer or of _build_citations is answered by
    \* HTTPException(500)
    /\ api_response' =
        IF step_failure \in {"score", "citations"}
        THEN [ status |-> "error_500", response |-> <<>>, citations |-> <<>>,
               confidence_score |-> 0, requires_review |-> FALSE ]
        ELSE
          [ status |-> "ok",
            response |->
                IF llm_outcome' = "not_called" THEN NoProvisionsNotice
                ELSE IF llm_outcome' = "raised"
                THEN _generate_fallback_response(graph_context')
                ELSE IF ~result'.is_valid /\ result'.has_corrected_response
                THEN result'.corrected_response
                ELSE response',
            citations |-> _build_citations(graph_context'),
            confidence_score |-> confidence_score_result'.overall_score,
            requires_review |-> confidence_score_result'.overall_score < 8000 ]
    /\ UNCHANGED <<max_context_length, graphVars, request, llm_behaviour, components,
                   step_failure, valid_sections, valid_definitions, confidence_score,
                   require_all_claims, counterVars, traversalVars, managerVars,
                   parserVars, builderVars, temporalVars, assemblyVars>>

NextEndpoint == process_query

SpecEndpoint == InitEndpoint /\ [][NextEndpoint]_vars

\* --- threads sharing one engine: "self.query_count += 1" and
\* --- "self.total_processing_time += processing_time" are a load and a
\* --- store each, and another thread can run between the two
InitCounters ==
    /\ GraphLoaded({ f \in EndpointKGFiles :
                        f.sections = AllSections /\ f.definitions = AllDefinitions })
    /\ max_context_length = 8000
    /\ citation_counter = 0
    /\ query_count = 0
    /\ total_processing_time = 0
    /\ query_intent = NoIntent
    /\ graph_context = NoGraphContext
    /\ llm_context = NoLLMContext
    /\ CountersIdle /\ TraversalIdle /\ ScorerIdle /\ ManagerIdle /\ ParserIdle /\ BuilderIdle /\ TemporalIdle /\ AssemblyIdle
    /\ ValidatorIdle /\ ApiIdle

\* steps 1 to 4 and the metadata: they touch no shared attribute; an
\* exception sends the call to the except branch, which returns at once
worker_call(w) ==
    /\ worker_pc[w] = "idle"
    /\ worker_calls[w] < MaxQueries
    /\ \E failed \in BOOLEAN, processing_time \in ProcessingTimes :
          IF failed
          THEN /\ worker_calls' = [worker_calls EXCEPT ![w] = @ + 1]
               /\ UNCHANGED <<worker_pc, worker_time>>
          ELSE /\ worker_pc' = [worker_pc EXCEPT ![w] = "load_count"]
               /\ worker_time' = [worker_time EXCEPT ![w] = processing_time]
               /\ UNCHANGED worker_calls
    /\ UNCHANGED <<worker_reg, query_count, total_processing_time>>

worker_load_count(w) ==
    /\ worker_pc[w] = "load_count"
    /\ worker_reg' = [worker_reg EXCEPT ![w] = query_count]
    /\ worker_pc' = [worker_pc EXCEPT ![w] = "store_count"]
    /\ UNCHANGED <<worker_time, worker_calls, query_count, total_processing_time>>

worker_store_count(w) ==
    /\ worker_pc[w] = "store_count"
    /\ query_count' = worker_reg[w] + 1
    /\ worker_pc' = [worker_pc EXCEPT ![w] = "load_time"]
    /\ UNCHANGED <<worker_reg, worker_time, worker_calls, total_processing_time>>

worker_load_time(w) ==
    /\ worker_pc[w] = "load_time"
    /\ worker_reg' = [worker_reg EXCEPT ![w] = total_processing_time]
    /\ worker_pc' = [worker_pc EXCEPT ![w] = "store_time"]
    /\ UNCHANGED <<worker_time, worker_calls, query_count, total_processing_time>>

\* the store, then "return GraphRAGResponse(...)"
worker_store_time(w) ==
    /\ worker_pc[w] = "store_time"
    /\ total_processing_time' = worker_reg[w] + worker_time[w]
    /\ worker_pc' = [worker_pc EXCEPT ![w] = "idle"]
    /\ worker_calls' = [worker_calls EXCEPT ![w] = @ + 1]
    /\ UNCHANGED <<worker_reg, worker_time, query_count>>

CountersFrame ==
    UNCHANGED <<max_context_length, citation_counter, query_intent, graph_context,
                llm_context, graphVars, validatorVars, apiVars, traversalVars,
                scorerVars, managerVars, parserVars, builderVars, temporalVars, assemblyVars>>

NextCounters ==
    \/ \E w \in Workers : worker_call(w) /\ CountersFrame
    \/ \E w \in Workers : worker_load_count(w) /\ CountersFrame
    \/ \E w \in Workers : worker_store_count(w) /\ CountersFrame
    \/ \E w \in Workers : worker_load_time(w) /\ CountersFrame
    \/ \E w \in Workers : worker_store_time(w) /\ CountersFrame

SpecCounters == InitCounters /\ [][NextCounters]_vars

\* --- traversal calls and queries on one loaded graph
TraversalKGFiles ==
    [ sections : {AllSections, <<Section2, Section35, Section36>>},
      clauses : {AllClauses},
      definitions : {<<DefConsumer>>},
      rights : {AllRights},
      contains_edges : {<<[parent |-> "CPA2019_2", child |-> "CPA2019_2_a"]>>},
      references_edges : SeqsUpTo(ReferencesUniverse, MaxEdges),
      defines_edges : {<<[source |-> "CPA2019_2", target |-> "DEF_consumer"]>>},
      malformed : {FALSE} ]

\* max_depth: 3 is the default
TraversalRequests ==
    [ start_node : {"CPA2019_2", "CPA2019_35", "CPA2019_99"},
      relation_types : { {}, {"references"}, {"contains", "references"},
                         {"contains", "references", "defines"} },
      max_depth : {0, 1, 3} ]

InitTraversal ==
    /\ GraphLoaded(TraversalKGFiles)
    /\ max_context_length = 8000
    /\ citation_counter = 0
    /\ query_count = 0
    /\ total_processing_time = 0
    /\ query_intent = NoIntent
    /\ graph_context = NoGraphContext
    /\ llm_context = NoLLMContext
    /\ request = [ query_intent |-> Intent("section_retrieval", <<"35">>, <<>>, 90,
                                           <<"section", "35">>),
                   audience |-> "citizen" ]
    /\ llm_behaviour = [outcome |-> "raises", content |-> <<>>]
    /\ llm_outcome = "not_called"
    /\ api_response = NoResponse
    /\ step_failure = "none"
    /\ trav_request \in TraversalRequests
    /\ trav_pc = "idle"
    /\ queue = <<>>
    /\ visited = {}
    /\ result_nodes = <<>>
    /\ expanded = <<>>
    /\ hierarchy = NotCalled
    /\ ValidatorIdle /\ CountersIdle /\ ScorerIdle /\ ManagerIdle /\ ParserIdle /\ BuilderIdle /\ TemporalIdle /\ AssemblyIdle

TraversalFrame ==
    UNCHANGED <<engineVars, validatorVars, apiVars, counterVars, scorerVars,
                managerVars, parserVars, builderVars, temporalVars, assemblyVars>>

NextTraversal ==
    \/ traverse_relationships_call /\ TraversalFrame
    \/ traverse_loop /\ TraversalFrame
    \/ traverse_return /\ TraversalFrame
    \/ get_section_hierarchy /\ TraversalFrame
    \/ GraphRAGEngine_process_query

SpecTraversal == InitTraversal /\ [][NextTraversal]_vars

\* the while loop runs on: a thread that is in it is never left waiting
\* forever
SpecTraversalFair ==
    /\ InitTraversal
    /\ [][NextTraversal]_vars
    /\ WF_vars(traverse_loop /\ TraversalFrame)
    /\ WF_vars(traverse_return /\ TraversalFrame)

\* --- the endpoint when one step of the request raises
RecoveryBehaviours ==
    { [outcome |-> "raises", content |-> <<>>],
      [outcome |-> "returns", content |-> <<TextToken, DisclaimerToken>>] }

InitRecovery ==
    /\ GraphLoaded(EndpointKGFiles)
    /\ max_context_length = 8000
    /\ citation_counter = 0
    /\ query_count = 0
    /\ total_processing_time = 0
    /\ query_intent = NoIntent
    /\ graph_context = NoGraphContext
    /\ llm_context = NoLLMContext
    /\ request \in Requests
    /\ llm_behaviour \in RecoveryBehaviours
    /\ components = Components(100, 100, 70, 60, 100, 80)
    /\ confidence_score_result = NoConfidenceScore
    /\ llm_outcome = "not_called"
    /\ api_response = NoResponse
    /\ step_failure \in StepFailures
    /\ response = <<>>
    /\ citations = {}
    /\ valid_sections =
          load_valid_sections({ x.section_number : x \in Range(kg_files.sections) })
    /\ valid_definitions =
          load_valid_definitions({ Lower(d.term) : d \in Range(kg_files.definitions) })
    /\ graph_nodes = {}
    /\ confidence_score = 90
    /\ require_all_claims = TRUE
    /\ validated = FALSE
    /\ result = NoResult
    /\ CountersIdle /\ TraversalIdle /\ ManagerIdle /\ ParserIdle /\ BuilderIdle /\ TemporalIdle /\ AssemblyIdle

NextRecovery == process_query

SpecRecovery == InitRecovery /\ [][NextRecovery]_vars

\* --- the scorer alone: each call scores the components of one response
\* --- for the audience and intent of the request
ComponentGrid ==
    { Components(gc, cd, rc, rq, 100, 80) :
        gc \in {20, 30, 100}, cd \in {30, 40, 100},
        rc \in {50, 60, 100}, rq \in {40, 50, 100} }

ScorerRequests ==
    [ query_intent : { Intent("scenario_analysis", <<>>, <<>>, 90, <<"refund">>),
                       Intent("section_retrieval", <<"35">>, <<>>, 90,
                              <<"section", "35">>) },
      audience : Audiences \cup {"student"} ]

InitScorer ==
    /\ components = Components(0, 0, 0, 0, 0, 0)
    /\ confidence_score_result = NoConfidenceScore
    /\ request \in ScorerRequests
    /\ llm_behaviour = [outcome |-> "raises", content |-> <<>>]
    /\ llm_outcome = "not_called"
    /\ api_response = NoResponse
    /\ step_failure = "none"
    /\ ValidatorIdle /\ GraphIdle /\ EngineIdle /\ CountersIdle /\ TraversalIdle
    /\ ManagerIdle /\ ParserIdle /\ BuilderIdle /\ TemporalIdle /\ AssemblyIdle

ConfidenceScorer_score_response ==
    /\ \E c \in ComponentGrid :
          /\ components' = c
          /\ confidence_score_result' =
                score_response(c, request.audience, request.query_intent)
    /\ UNCHANGED <<validatorVars, graphVars, engineVars, apiVars, counterVars,
                   traversalVars, managerVars, parserVars, builderVars, temporalVars, assemblyVars>>

NextScorer == ConfidenceScorer_score_response

SpecScorer == InitScorer /\ [][NextScorer]_vars

\* ------------------------------------------------------------------------
\* LLMManager with the sequential fallback strategy. A provider is named by
\* its position in the order of the add_provider calls.
\* ------------------------------------------------------------------------
MaxProviders == 4

\* default of the max_retries parameter of generate_response
max_retries == 3

\* last_health_check and last_request_time are held as what the comparisons
\* with the clock give: health_check_due is "current_time - last_health_check
\* > health_check_interval" (the first check is due, last_health_check = 0),
\* request_recent is "current_time - last_request_time < 60".  invocations
\* counts the calls of provider.generate_response since a minute last
\* passed; marked_by_error tells that is_healthy was last written by
\* _handle_provider_error.
ProviderConfig(name, priority) ==
    [ name |-> name, priority |-> priority, enabled |-> TRUE, is_healthy |-> TRUE,
      health_check_due |-> TRUE, max_requests_per_minute |-> 60,
      request_count |-> 0, request_recent |-> FALSE, invocations |-> 0,
      marked_by_error |-> FALSE ]

ConfigOf(name) == providers[name]

\* sorted(..., key = priority, reverse = True): stable, so providers of
\* equal priority keep their insertion order
RECURSIVE insert_by_priority(_, _, _)
insert_by_priority(configs, sorted, name) ==
    IF sorted = <<>> THEN <<name>>
    ELSE IF configs[Head(sorted)].priority >= configs[name].priority
    THEN <<Head(sorted)>> \o insert_by_priority(configs, Tail(sorted), name)
    ELSE <<name>> \o sorted

RECURSIVE sorted_by_priority(_, _)
sorted_by_priority(configs, names) ==
    IF names = <<>> THEN <<>>
    ELSE insert_by_priority(configs,
                            sorted_by_priority(configs, SubSeq(names, 1, Len(names) - 1)),
                            names[Len(names)])

_get_provider_order_insertion(configs) ==
    SelectSeq([i \in 1..Len(configs) |-> i],
              LAMBDA name : configs[name].enabled /\ configs[name].is_healthy)

_get_provider_order(configs) ==
    sorted_by_priority(configs,
        SelectSeq([i \in 1..Len(configs) |-> i],
                  LAMBDA name : configs[name].enabled /\ configs[name].is_healthy))

\* _is_provider_available: a due health check replaces is_healthy by what
\* provider.is_available() answers
health_checked(config, behaviour) ==
    IF config.enabled /\ config.health_check_due
    THEN [config EXCEPT !.is_healthy = behaviour.available,
                        !.health_check_due = FALSE,
                        !.marked_by_error = FALSE]
    ELSE config

_is_provider_available(config, behaviour) ==
    config.enabled /\ health_checked(config, behaviour).is_healthy

\* what _check_rate_limit returns
_check_rate_limit(config) ==
    ~(config.request_recent /\ config.request_count >= config.max_requests_per_minute)

\* what _check_rate_limit leaves: "Reset counter for new minute"
rate_limit_checked(config) ==
    IF config.request_recent THEN config ELSE [config EXCEPT !.request_count = 0]

\* provider_config.provider.generate_response(...) is entered
invoked(config) == [config EXCEPT !.invocations = @ + 1]

_update_provider_stats(config) ==
    [config EXCEPT !.request_count = @ + 1, !.request_recent = TRUE]

_mark_provider_rate_limited(config) ==
    [config EXCEPT !.request_recent = TRUE,
                   !.request_count = config.max_requests_per_minute]

\* _handle_provider_error, and _mark_provider_rate_limited for a rate_limit
_handle_provider_error(config, error_type) ==
    IF error_type = "rate_limit" THEN _mark_provider_rate_limited(config)
    ELSE IF error_type \in {"api_error", "timeout", "unknown"}
    THEN [config EXCEPT !.is_healthy = FALSE, !.marked_by_error = TRUE]
    ELSE config

ProviderOutcomes == {"returns", "api_error", "rate_limit", "mock_error"}

PriorityOrders == {"descending", "ascending", "equal"}

PriorityOf(order, i) ==
    IF order = "descending" THEN 10 - i
    ELSE IF order = "ascending" THEN i
    ELSE 1

InitManager ==
    /\ \E n \in 1..MaxProviders, order \in PriorityOrders :
          providers = [i \in 1..n |-> ProviderConfig(i, PriorityOf(order, i))]
    /\ \E unavailable \in 0..Len(providers) :
          provider_behaviour \in
              [ 1..Len(providers) ->
                  [outcome : ProviderOutcomes, available : BOOLEAN] ]
          /\ \A i \in 1..Len(providers) :
                provider_behaviour[i].available = (i # unavailable)
    /\ mgr_pc = "idle"
    /\ provider_order = <<>>
    /\ attempts = 0
    /\ last_error = "none"
    /\ calls = <<>>
    /\ llm_result = 0
    /\ total_requests = 0
    /\ successful_requests = 0
    /\ failed_requests = 0
    /\ ValidatorIdle /\ GraphIdle /\ EngineIdle /\ ApiIdle
    /\ CountersIdle /\ TraversalIdle /\ ScorerIdle /\ ParserIdle /\ BuilderIdle /\ TemporalIdle /\ AssemblyIdle

\* entry of generate_response, up to the for loop
LLMManager_generate_response ==
    /\ mgr_pc \in {"idle", "returned", "raised"}
    /\ total_requests < MaxQueries
    /\ total_requests' = total_requests + 1
    /\ provider_order' = _get_provider_order(providers)
    /\ attempts' = 0
    /\ last_error' = "none"
    /\ calls' = <<>>
    /\ llm_result' = 0
    /\ mgr_pc' = "loop"
    /\ UNCHANGED <<providers, provider_behaviour, successful_requests,
                   failed_requests>>

\* one turn of "for provider_name in provider_order"
try_provider ==
    /\ mgr_pc = "loop"
    /\ provider_order # <<>>
    /\ attempts < max_retries
    /\ provider_order' = Tail(provider_order)
    /\ IF ~_is_provider_available(ConfigOf(Head(provider_order)),
                                  provider_behaviour[Head(provider_order)])
       THEN \* not available: skipped
            /\ providers' = [providers EXCEPT ![Head(provider_order)] =
                                health_checked(@, provider_behaviour[Head(provider_order)])]
            /\ UNCHANGED <<mgr_pc, attempts, last_error, calls, llm_result,
                           successful_requests>>
       ELSE IF ~_check_rate_limit(ConfigOf(Head(provider_order)))
       THEN \* rate limited: skipped
            /\ providers' = [providers EXCEPT ![Head(provider_order)] =
                                health_checked(@, provider_behaviour[Head(provider_order)])]
            /\ UNCHANGED <<mgr_pc, attempts, last_error, calls, llm_result,
                           successful_requests>>
       ELSE /\ calls' = Append(calls, Head(provider_order))
            /\ IF provider_behaviour[Head(provider_order)].outcome = "returns"
               THEN /\ providers' = [providers EXCEPT ![Head(provider_order)] =
                          _update_provider_stats(invoked(rate_limit_checked(
                              health_checked(@, provider_behaviour[Head(provider_order)]))))]
                    /\ successful_requests' = successful_requests + 1
                    /\ llm_result' = Head(provider_order)
                    /\ mgr_pc' = "returned"
                    /\ UNCHANGED <<attempts, last_error>>
               ELSE /\ attempts' = attempts + 1
                    /\ last_error' = provider_behaviour[Head(provider_order)].outcome
                    /\ providers' = [providers EXCEPT ![Head(provider_order)] =
                          _handle_provider_error(
                              invoked(rate_limit_checked(
                                  health_checked(@, provider_behaviour[Head(provider_order)]))),
                              last_error')]
                    /\ UNCHANGED <<mgr_pc, llm_result, successful_requests>>
    /\ UNCHANGED <<provider_behaviour, total_requests, failed_requests>>

\* variant: the request that ends in an error is not counted as failed
raise_last_error_uncounted ==
    /\ mgr_pc = "loop"
    /\ provider_order = <<>> \/ attempts >= max_retries
    /\ llm_result' = 0
    /\ mgr_pc' = "raised"
    /\ last_error' = IF last_error # "none" THEN last_error ELSE "no_providers"
    /\ UNCHANGED <<providers, provider_behaviour, provider_order, attempts, calls,
                   total_requests, successful_requests, failed_requests>>

\* the loop ended without a response: "All providers failed"
raise_last_error ==
    /\ mgr_pc = "loop"
    /\ provider_order = <<>> \/ attempts >= max_retries
    /\ failed_requests' = failed_requests + 1
    /\ llm_result' = 0
    /\ mgr_pc' = "raised"
    /\ last_error' = IF last_error # "none" THEN last_error ELSE "no_providers"
    /\ UNCHANGED <<providers, provider_behaviour, provider_order, attempts, calls,
                   total_requests, successful_requests>>

ManagerFrame ==
    UNCHANGED <<validatorVars, graphVars, engineVars, apiVars, counterVars,
                traversalVars, scorerVars, parserVars, builderVars, temporalVars, assemblyVars>>

NextManager ==
    \/ LLMManager_generate_response /\ ManagerFrame
    \/ try_provider /\ ManagerFrame
    \/ raise_last_error /\ ManagerFrame

SpecManager == InitManager /\ [][NextManager]_vars

\* ------------------------------------------------------------------------
\* QueryParser. A query is the sequence of the words of the lowercased,
\* stripped string; a pattern is a sequence of groups, each group the set
\* of its alternatives (one or more adjacent words), and ".*?" between two
\* groups lets any words stand between them. A ratio is held in sixtieths,
\* so that k/3, k/4 and k/5 are whole numbers.
\* ------------------------------------------------------------------------
MaxWords == 3

Numbers == {"2", "35", "99"}

DefinitionTerms ==
    { <<"consumer">>, <<"trader">>, <<"defect">>, <<"deficiency">>,
      <<"unfair", "trade">>, <<"advertisement">> }

Followed(words) == { <<w, n>> : w \in words, n \in Numbers }

Buyers == { <<"consumer">>, <<"buyer">>, <<"customer">> }

RightsWords ==
    { <<"right">>, <<"rights">>, <<"entitle">>, <<"entitled">>, <<"entitlem">>,
      <<"protection">> }

intent_patterns(intent_type) ==
    IF intent_type = "definition_lookup"
    THEN << << { <<"what", "is">>, <<"define">>, <<"definition", "of">>,
                 <<"meaning", "of">>, <<"explain">> }, DefinitionTerms >>,
            << DefinitionTerms,
               { <<"mean">>, <<"means">>, <<"definition">>, <<"defined", "as">> } >>,
            << { <<"term">>, <<"word">> }, DefinitionTerms >> >>
    ELSE IF intent_type = "section_retrieval"
    THEN << << Followed({"section"}) >>,
            << Followed({"s."}) >>,
            << Followed({"sec."}) >>,
            << { <<"show">>, <<"tell">>, <<"find">>, <<"get">> }, { <<"section">> } >>,
            << Followed({"chapter", "part"}) >> >>
    ELSE IF intent_type = "rights_query"
    THEN << << RightsWords, Buyers >>,
            << Buyers, RightsWords >>,
            << { <<"what", "can">>, <<"how", "can">> }, Buyers,
               { <<"do">>, <<"claim">>, <<"get">> } >>,
            << { <<"remedies">>, <<"redressal">>, <<"compensation">> } >> >>
    ELSE << << { <<"if">>, <<"suppose">>, <<"what", "happens">>, <<"scenario">>,
                 <<"case">>, <<"situation">> } >>,
            << { <<"can", "i">>, <<"should", "i">>, <<"may", "i">> },
               { <<"file">>, <<"complain">>, <<"sue">>, <<"claim">> } >>,
            << { <<"defective">>, <<"faulty">>, <<"damaged">> },
               { <<"product">>, <<"goods">>, <<"service">> } >>,
            << { <<"unfair">>, <<"misleading">>, <<"false">> },
               { <<"advertisement">>, <<"practice">>, <<"contract">> } >> >>

\* the keys of self.intent_patterns, in the order of the dictionary
IntentTypes ==
    <<"definition_lookup", "section_retrieval", "rights_query", "scenario_analysis">>

\* re.search(pattern, query): the groups are found one after the other
RECURSIVE re_search(_, _, _)
re_search(pattern, q, from) ==
    IF pattern = <<>> THEN TRUE
    ELSE \E start \in from..Len(q) :
            \E alt \in Head(pattern) :
                /\ start + Len(alt) - 1 <= Len(q)
                /\ SubSeq(q, start, start + Len(alt) - 1) = alt
                /\ re_search(Tail(pattern), q, start + Len(alt))

matches(intent_type, q) ==
    Cardinality({ i \in 1..Len(intent_patterns(intent_type)) :
                    re_search(intent_patterns(intent_type)[i], q, 1) })

\* score / len(patterns)
intent_score(intent_type, q) ==
    (matches(intent_type, q) * 60) \div Len(intent_patterns(intent_type))

\* max(intent_scores.items(), key = score): the first of the highest
RECURSIVE best_intent(_, _, _)
best_intent(q, types, best) ==
    IF types = <<>> THEN best
    ELSE best_intent(q, Tail(types),
            IF matches(Head(types), q) > 0
               /\ (best = "" \/ intent_score(Head(types), q) > intent_score(best, q))
            THEN Head(types) ELSE best)

RECURSIVE first_intent(_, _, _)
first_intent(q, types, best) ==
    IF types = <<>> THEN best
    ELSE IF matches(Head(types), q) > 0 THEN Head(types)
    ELSE first_intent(q, Tail(types), best)

_classify_intent_first_match(q) ==
    IF first_intent(q, IntentTypes, "") = ""
    THEN [intent_type |-> "scenario_analysis", confidence |-> 18]
    ELSE [intent_type |-> first_intent(q, IntentTypes, ""),
          confidence |-> Min(intent_score(first_intent(q, IntentTypes, ""), q), 60)]

_classify_intent(q) ==
    IF best_intent(q, IntentTypes, "") = ""
    THEN [intent_type |-> "scenario_analysis", confidence |-> 18]
    ELSE [intent_type |-> best_intent(q, IntentTypes, ""),
          confidence |-> Min(intent_score(best_intent(q, IntentTypes, ""), q), 60)]

\* the first three of self.section_patterns ("N of cpa" needs more words)
_extract_section_numbers(q) ==
    { n \in Numbers :
        \E w \in {"section", "s.", "sec."} : re_search(<< {<<w, n>>} >>, q, 1) }

legal_terms ==
    { <<"consumer">>, <<"trader">>, <<"manufacturer">>, <<"service", "provider">>,
      <<"complainant">>, <<"defect">>, <<"deficiency">>,
      <<"unfair", "trade", "practice">>, <<"restrictive", "trade", "practice">>,
      <<"misleading", "advertisement">>, <<"false", "advertisement">>,
      <<"consumer", "rights">>, <<"product", "liability">>, <<"compensation">>,
      <<"redressal">>, <<"complaint">>, <<"district", "commission">>,
      <<"state", "commission">>, <<"national", "commission">>,
      <<"central", "authority">>, <<"consumer", "protection">>, <<"goods">>,
      <<"services">>, <<"warranty">>, <<"guarantee">>, <<"endorsement">>,
      <<"e-commerce">>, <<"direct", "selling">> }

_extract_legal_terms(q) ==
    { term \in legal_terms : re_search(<< {term} >>, q, 1) }

parse_query(q) ==
    [ parsed |-> TRUE,
      intent_type |-> _classify_intent(q).intent_type,
      section_numbers |-> _extract_section_numbers(q),
      legal_terms |-> _extract_legal_terms(q),
      confidence |-> _classify_intent(q).confidence,
      original_query |-> q ]

Words ==
    {"what", "is", "consumer", "means", "section", "35", "rights", "if",
     "defective", "product", "xyzzy"}

RECURSIVE QueriesOfLength(_)
QueriesOfLength(n) ==
    IF n = 0 THEN { <<>> }
    ELSE { Append(q, w) : q \in QueriesOfLength(n - 1), w \in Words }

Queries == UNION { QueriesOfLength(n) : n \in 0..MaxWords }

InitParser ==
    /\ user_query \in Queries
    /\ parsed_intent = NotParsed
    /\ ValidatorIdle /\ GraphIdle /\ EngineIdle /\ ApiIdle
    /\ CountersIdle /\ TraversalIdle /\ ScorerIdle /\ ManagerIdle /\ BuilderIdle /\ TemporalIdle /\ AssemblyIdle

QueryParser_parse_query ==
    /\ ~parsed_intent.parsed
    /\ parsed_intent' = parse_query(user_query)
    /\ UNCHANGED <<user_query, validatorVars, graphVars, engineVars, apiVars,
                   counterVars, traversalVars, scorerVars, managerVars,
                   builderVars, temporalVars, assemblyVars>>

NextParser == QueryParser_parse_query

SpecParser == InitParser /\ [][NextParser]_vars

\* ------------------------------------------------------------------------
\* Properties of the validator
\* ------------------------------------------------------------------------
HasIssue(r, severity, issue_type) ==
    \E i \in 1..Len(r.issues) :
        r.issues[i].severity = severity /\ r.issues[i].issue_type = issue_type

\* the text mentions, in one of the section surface forms, a number that
\* no section of the graph carries
MentionsAbsentSection(text) ==
    \E i \in 1..Len(text) :
        SectionPattern(text[i]) # "none" /\ BaseSection(text[i]) \notin GraphSectionNumbers

ResolvesToGraphNode(tok) ==
    \/ tok.a = "Section " /\ tok.b \in GraphSectionNumbers
    \/ tok.a = "Definition of " /\ tok.b \in GraphDefinitionTerms
    \/ tok.a = "Clause " /\ tok.b \in {"(a)"}

Unresolved(tok, cits) ==
    tok.kind = "cite" /\ CitationKey(tok) \notin cits /\ ~ResolvesToGraphNode(tok)

\* C3: a response with a citation token that resolves neither to a key of
\* the citation map nor to a node of the graph is invalid and carries an
\* error-severity invalid_citation issue.
C3_InvalidCitationBlocks ==
    (validated /\ \E i \in 1..Len(response) : Unresolved(response[i], citations))
        => (~result.is_valid /\ HasIssue(result, "error", "invalid_citation"))

\* C4: every citation token that is neither a key of the citation map nor
\* a reference to an existing graph node is flagged invalid_citation with
\* error severity.
C4_OnlyResolvableCitationsAccepted ==
    validated =>
        \A i \in 1..Len(response) :
            Unresolved(response[i], citations) =>
                \E k \in 1..Len(result.issues) :
                    /\ result.issues[k].severity = "error"
                    /\ result.issues[k].issue_type = "invalid_citation"
                    /\ result.issues[k].location = CitationKey(response[i])

\* C5: a response with predictive phrasing about a judicial outcome gets an
\* error-severity predictive_language issue and is_valid = FALSE,
\* regardless of its citations.
C5_PredictiveLanguageBlocks ==
    (validated /\ \E i \in 1..Len(response) : response[i].kind = "predictive")
        => (HasIssue(result, "error", "predictive_language") /\ ~result.is_valid)

\* C6: a corrected_response is the original text followed only by the
\* standard disclaimer, and none is produced when the issue list holds an
\* error-severity issue outside the correctable class.
C6_CorrectionOnlyAppendsDisclaimer ==
    (validated /\ result.has_corrected_response) =>
        /\ Len(result.corrected_response) >= Len(response)
        /\ SubSeq(result.corrected_response, 1, Len(response)) = response
        /\ \A i \in (Len(response) + 1)..Len(result.corrected_response) :
              result.corrected_response[i] = StandardDisclaimer
        /\ ~\E k \in 1..Len(result.issues) :
              /\ result.issues[k].severity = "error"
              /\ result.issues[k].issue_type \notin {"missing_disclaimer", "formatting_issue"}

\* C6 witness: an invalid response was corrected by appending the disclaimer
C6_Witness ==
    /\ validated
    /\ result.has_corrected_response
    /\ ~result.is_valid
    /\ result.corrected_response = Append(response, StandardDisclaimer)

\* every section reference of the text names a section of the loaded graph
\* and the text has no clause reference
AllSectionReferencesExist(text) ==
    \A i \in 1..Len(text) :
        /\ SectionPattern(text[i]) # "none" => BaseSection(text[i]) \in GraphSectionNumbers
        /\ ~(text[i].kind = "cite" /\ text[i].a = "Clause ")

\* C7: a response whose section references all exist in the loaded graph
\* has an empty fabricated_references list, whichever nodes were retrieved.
C7_NoFabricationForExistingSections ==
    (validated /\ AllSectionReferencesExist(response))
        => result.fabricated_references = {}

\* ------------------------------------------------------------------------
\* Properties of the graph load
\* ------------------------------------------------------------------------
\* ids of the nodes the files hold
FileNodeIds(f) ==
    { x.section_id : x \in Range(f.sections) }
    \cup { c.clause_id : c \in Range(f.clauses) }
    \cup { r.right_id : r \in Range(f.rights) }
    \cup { "DEF_" \o Lower(d.term) : d \in Range(f.definitions) }

\* some edge of the files has an endpoint that is no node of the files
HasDanglingEdge(f) ==
    LET edges == all_edges(f)
    IN \E i \in 1..Len(edges) :
          edges[i][1] \notin FileNodeIds(f) \/ edges[i][2] \notin FileNodeIds(f)

\* C9: loading a graph with a dangling edge raises a load-time error; the
\* engine never finishes construction with a dangling edge.
C9_DanglingEdgeFailsLoad ==
    (load_state # "unloaded" /\ HasDanglingEdge(kg_files)) => load_state = "failed"

\* ------------------------------------------------------------------------
\* Properties of the assembled context
\* ------------------------------------------------------------------------
\* the six fundamental rights are entries of the text, each under a key
\* of its own that the citation map holds
KeysOf(context, label) ==
    { context.formatted_text[j].key : j \in { k \in 1..Len(context.formatted_text) :
        /\ context.formatted_text[k].label = label
        /\ context.formatted_text[k].key \in DOMAIN context.citations } }

ListsSixRights(context) ==
    /\ \A i \in 1..Len(fundamental_rights) : KeysOf(context, fundamental_rights[i]) # {}
    /\ \A i, j \in 1..Len(fundamental_rights) :
          i # j => KeysOf(context, fundamental_rights[i])
                   \cap KeysOf(context, fundamental_rights[j]) = {}

\* C10: the result of every rights_query lists the six fundamental rights,
\* each with its own citation key in the citation map, whatever nodes
\* retrieval returned (none included).
C10_RightsQueryListsSixRights ==
    (query_count > 0 /\ query_intent.intent_type = "rights_query")
        => ListsSixRights(llm_context)

\* the citation keys printed in a formatted text
CitationTokensOf(text) == { text[i].key : i \in 1..Len(text) } \ {""}

\* C11: every citation token of the assembled formatted text, after
\* truncation and after the audience post-processing, is a key of the
\* citation map returned with it.
C11_CitationTokensResolve ==
    query_count > 0
        => CitationTokensOf(llm_context.formatted_text) \subseteq DOMAIN llm_context.citations

\* a truncated lawyer context that still prints citation keys
C11_Witness ==
    /\ query_count > 0
    /\ llm_context.metadata.audience = "lawyer"
    /\ \E i \in 1..Len(llm_context.formatted_text) :
          llm_context.formatted_text[i] = TruncationNotice
    /\ \E i \in 1..Len(llm_context.formatted_text) :
          /\ llm_context.formatted_text[i].kind \in {"entry", "fragment"}
          /\ llm_context.formatted_text[i].key # ""
    /\ llm_context.definitions # <<>>

\* ------------------------------------------------------------------------
\* Properties of the query endpoint
\* ------------------------------------------------------------------------
\* the text holds no generated phrase: notices and graph excerpts only
GraphOnly(text) == \A i \in 1..Len(text) : text[i].kind \in {"notice", "excerpt"}

\* C2: when validation of the generated text reports is_valid = False, the
\* endpoint answers with a graph-only excerpt or a cannot-verify notice,
\* never with the generated text.
C2_BlockedTextNeverReturned ==
    (api_response.status = "ok" /\ llm_outcome = "returned" /\ ~result.is_valid)
        => GraphOnly(api_response.response)

\* the text carries, as its excerpt, the text of the first retrieved node
ExcerptOfPrimaryNode(text, gc) ==
    /\ gc.nodes # <<>>
    /\ \E i \in 1..Len(text) :
          /\ text[i].kind = "excerpt"
          /\ text[i].a = Join(get_text(gc.nodes[1]))

\* C8: when the generation call fails, the request still completes and the
\* answer is the graph-only one: the primary node's text, no generated
\* prose.
C8_GenerationFailureFallsBack ==
    llm_outcome = "raised"
        => /\ api_response.status = "ok"
           /\ GraphOnly(api_response.response)
           /\ ExcerptOfPrimaryNode(api_response.response, graph_context)

\* C12: every request is answered by a response object, whichever step of
\* the pipeline (parse, retrieve, assemble, score, build citations) raises;
\* no exception reaches the caller.
C12_EveryFailureRecovered ==
    api_response.status # "none" => api_response.status = "ok"

\* ------------------------------------------------------------------------
\* Properties of the aggregate counters
\* ------------------------------------------------------------------------
RECURSIVE CallsOf(_)
CallsOf(ws) ==
    IF ws = {} THEN 0
    ELSE LET w == CHOOSE x \in ws : TRUE
         IN worker_calls[w] + CallsOf(ws \ {w})

\* get_performance_stats()['total_queries']
total_queries == query_count

\* C13: the aggregate counters are updated atomically and monotonically:
\* whenever no call is in progress, total_queries is the number of
\* completed process_query calls, and neither total_queries nor the
\* cumulative processing time ever decreases.
C13_CountersAtomicAndMonotonic ==
    /\ [](( \A w \in Workers : worker_pc[w] = "idle" )
            => total_queries = CallsOf(Workers))
    /\ [][ /\ query_count' >= query_count
           /\ total_processing_time' >= total_processing_time ]_vars

\* ------------------------------------------------------------------------
\* Properties of the graph during request processing
\* ------------------------------------------------------------------------
\* C14: no retrieve_context, traverse_relationships or
\* get_section_hierarchy step writes to the loaded graph: node collections,
\* edge collections and indices stay exactly as they were.
C14_RequestsNeverWriteGraph ==
    [][kg' = kg /\ index' = index /\ kg_files' = kg_files]_vars

\* a traversal that expanded a node with no outgoing edge has returned, a
\* hierarchy was computed and a query was answered
C14_Witness ==
    /\ trav_pc = "returned"
    /\ \E i \in 1..Len(expanded) : expanded[i] \notin DOMAIN index.edges_from
    /\ hierarchy.called /\ hierarchy.nodes # <<>>
    /\ query_count > 0
    /\ graph_context.nodes # <<>>

\* the traversal followed edges that lead from a to b and back
FollowedCycle ==
    \E a, b \in visited :
        /\ a # b
        /\ a \in DOMAIN index.edges_from /\ b \in DOMAIN index.edges_from
        /\ \E i \in 1..Len(index.edges_from[a]) :
              /\ index.edges_from[a][i][1] = b
              /\ index.edges_from[a][i][2] \in trav_request.relation_types
        /\ \E i \in 1..Len(index.edges_from[b]) :
              /\ index.edges_from[b][i][1] = a
              /\ index.edges_from[b][i][2] \in trav_request.relation_types

\* C19: traverse_relationships returns for every start node, allow-list
\* and max depth, on cyclic graphs too, and expands no node twice.
C19_TraversalTerminates ==
    /\ (trav_pc = "loop") ~> (trav_pc = "returned")
    /\ [](\A i, j \in 1..Len(expanded) : expanded[i] = expanded[j] => i = j)

\* a traversal over a cycle has returned
C19_Witness ==
    /\ trav_pc = "returned"
    /\ FollowedCycle
    /\ trav_request.max_depth = 3

\* ------------------------------------------------------------------------
\* Properties of the confidence scorer
\* ------------------------------------------------------------------------
TriggersHolding ==
    { r \in {"below_threshold", "judge_requires_very_high", "low_graph_coverage",
             "low_citation_density", "scenario_low_reasoning",
             "low_response_quality"} :
        \/ r = "below_threshold" /\ confidence_score_result.overall_score < 8000
        \/ r = "judge_requires_very_high" /\ request.audience = "judge"
              /\ confidence_score_result.overall_score < 9000
        \/ r = "low_graph_coverage" /\ components.graph_coverage < 30
        \/ r = "low_citation_density" /\ components.citation_density < 40
        \/ r = "scenario_low_reasoning"
              /\ request.query_intent.intent_type = "scenario_analysis"
              /\ components.reasoning_chain_score < 60
        \/ r = "low_response_quality" /\ components.response_quality < 50 }

\* C15: the scorer asks for human review if and only if at least one of
\* the six triggers holds (overall score below the high threshold, judge
\* audience below very_high, graph_coverage < 0.3, citation_density < 0.4,
\* scenario_analysis with reasoning_chain_score < 0.6, response_quality <
\* 0.5), and every trigger that holds has its reason in the recorded list,
\* once, with no other reason.
C15_ReviewIffTrigger ==
    confidence_score_result.scored =>
        /\ confidence_score_result.requires_human_review <=> TriggersHolding # {}
        /\ Range(confidence_score_result.review_reasons) = TriggersHolding
        /\ Len(confidence_score_result.review_reasons) = Cardinality(TriggersHolding)

\* a response whose overall score is very high and whose only trigger is
\* the weak reasoning chain of a scenario analysis
C15_Witness ==
    /\ confidence_score_result.scored
    /\ confidence_score_result.overall_score >= 9000
    /\ confidence_score_result.requires_human_review
    /\ confidence_score_result.review_reasons = <<"scenario_low_reasoning">>

\* C16: whenever the scorer decided that the response needs human review,
\* the response of the endpoint carries requires_review = TRUE.
C16_ReviewDecisionIsFlagged ==
    (api_response.status = "ok" /\ confidence_score_result.requires_human_review)
        => api_response.requires_review

ComponentScale == 0..100

\* C17: for the weight vector of the request's audience, a response that
\* differs from the scored one only by a larger citation_density never
\* gets a smaller overall score.
C17_CitationDensityMonotone ==
    confidence_score_result.scored =>
        \A d \in ComponentScale :
            d >= components.citation_density =>
                score_response([components EXCEPT !.citation_density = d],
                               request.audience, request.query_intent).overall_score
                    >= confidence_score_result.overall_score

\* a scored response with room for more citations, for which more
\* citations give a strictly larger overall score
C17_Witness ==
    /\ confidence_score_result.scored
    /\ components.citation_density = 30
    /\ score_response([components EXCEPT !.citation_density = 100],
                      request.audience, request.query_intent).overall_score
          > confidence_score_result.overall_score

\* ------------------------------------------------------------------------
\* Properties of the provider manager
\* ------------------------------------------------------------------------
AllProviders == [i \in 1..Len(providers) |-> i]

PriorityOrder == sorted_by_priority(providers, AllProviders)

\* the providers that answer a call; the others fail
Succeeding == { i \in 1..Len(PriorityOrder) :
                  /\ provider_behaviour[PriorityOrder[i]].outcome = "returns"
                  /\ provider_behaviour[PriorityOrder[i]].available }

FirstSucceeding == CHOOSE i \in Succeeding : \A j \in Succeeding : i <= j

\* C18: a finished request has called the providers in descending priority
\* order, each once, up to and including the first one that answers, and
\* has returned that provider's response; when no provider answers, every
\* provider has been called once and the request has raised LLMError.
C18_SequentialFallback ==
    mgr_pc \in {"returned", "raised"} =>
        IF Succeeding # {}
        THEN /\ mgr_pc = "returned"
             /\ calls = SubSeq(PriorityOrder, 1, FirstSucceeding)
             /\ llm_result = PriorityOrder[FirstSucceeding]
        ELSE /\ mgr_pc = "raised"
             /\ calls = PriorityOrder

\* ------------------------------------------------------------------------
\* Properties of the query parser
\* ------------------------------------------------------------------------
IntentTypeSet == { IntentTypes[i] : i \in 1..Len(IntentTypes) }

\* C20: parse_query returns an intent for every query, the empty one and
\* nonsense included; its category has the highest ratio of matched to
\* defined patterns and its confidence is that ratio, at most 1.0; when no
\* pattern of any category matches, the category is scenario_analysis and
\* the confidence 0.3 (18 sixtieths).
C20_HighestRatioOrDefault ==
    parsed_intent.parsed =>
        /\ parsed_intent.intent_type \in IntentTypeSet
        /\ parsed_intent.confidence <= 60
        /\ IF \A t \in IntentTypeSet : matches(t, user_query) = 0
           THEN /\ parsed_intent.intent_type = "scenario_analysis"
                /\ parsed_intent.confidence = 18
           ELSE /\ matches(parsed_intent.intent_type, user_query) > 0
                /\ parsed_intent.confidence
                      = intent_score(parsed_intent.intent_type, user_query)
                /\ \A t \in IntentTypeSet :
                      intent_score(t, user_query) <= parsed_intent.confidence

\* a query matching a section pattern (1 of 5) and a scenario pattern
\* (1 of 4), parsed as a scenario analysis
C20_Witness ==
    /\ parsed_intent.parsed
    /\ matches("section_retrieval", user_query) > 0
    /\ parsed_intent.intent_type = "scenario_analysis"
    /\ parsed_intent.confidence = 15

\* ------------------------------------------------------------------------
\* Properties of the truncation
\* ------------------------------------------------------------------------
\* ------------------------------------------------------------------------
\* ConfidenceScorer._calculate_temporal_validity
\* ------------------------------------------------------------------------
\* most nodes in a graph context handed to the scorer
MaxNodes == 3

current_act == "Consumer Protection Act, 2019"

\* the score of a context whose sections are not of the current act
outdated_score == 80

_calculate_temporal_validity(gc) ==
    IF gc.nodes = <<>> THEN 50
    ELSE IF \E i \in 1..Len(gc.nodes) :
               /\ gc.nodes[i].node_type = "section"
               /\ OccursIn(current_act, gc.nodes[i].content.act)
    THEN 100
    ELSE outdated_score

\* a section of the repealed act
Section12Of1986 == [section_id |-> "CPA1986_12", section_number |-> "12",
                    title |-> "Manner in which complaint shall be made",
                    act |-> "Consumer Protection Act, 1986",
                    text |-> <<"a", "complaint", "may", "be", "filed">>,
                    chapter |-> "III",
                    chapter_title |-> "Consumer Disputes Redressal Agencies"]

TemporalNodes ==
    { GraphNode("CPA2019_2", "section", Section2),
      GraphNode("CPA2019_35", "section", Section35),
      GraphNode("CPA1986_12", "section", Section12Of1986),
      GraphNode("DEF_consumer", "definition", DefConsumer) }

TemporalContexts ==
    { [NoGraphContext EXCEPT !.nodes = nodes] : nodes \in SeqsUpTo(TemporalNodes, MaxNodes) }

\* --- the temporal validity component: the graph context is drawn in the
\* --- initial state, the scorer computes the component
InitTemporal ==
    /\ max_context_length = 8000
    /\ citation_counter = 0
    /\ query_count = 0
    /\ total_processing_time = 0
    /\ query_intent = NoIntent
    /\ graph_context \in TemporalContexts
    /\ llm_context = NoLLMContext
    /\ ApiIdle /\ ValidatorIdle /\ GraphIdle /\ OtherIdle

ConfidenceScorer_calculate_temporal_validity ==
    /\ temporal_validity = -1
    /\ temporal_validity' = _calculate_temporal_validity(graph_context)
    /\ UNCHANGED <<validatorVars, graphVars, engineVars, apiVars, counterVars,
                   traversalVars, scorerVars, managerVars, parserVars, builderVars,
                   assemblyVars>>

NextTemporal == ConfidenceScorer_calculate_temporal_validity

SpecTemporal == InitTemporal /\ [][NextTemporal]_vars

\* --- the manager over time: between two requests a minute or a health
\* --- check interval may pass, a provider may come back, and GET /health
\* --- may run health_check_all_providers
RequestLimits == {1, 60}

InitManagerClock ==
    /\ \E n \in 1..2, limit \in RequestLimits :
          providers = [i \in 1..n |->
                          [ProviderConfig(i, 10 - i) EXCEPT
                               !.max_requests_per_minute = limit]]
    /\ provider_behaviour \in
          [ 1..Len(providers) -> [outcome : ProviderOutcomes, available : BOOLEAN] ]
    /\ mgr_pc = "idle"
    /\ provider_order = <<>>
    /\ attempts = 0
    /\ last_error = "none"
    /\ calls = <<>>
    /\ llm_result = 0
    /\ total_requests = 0
    /\ successful_requests = 0
    /\ failed_requests = 0
    /\ ValidatorIdle /\ GraphIdle /\ EngineIdle /\ ApiIdle
    /\ CountersIdle /\ TraversalIdle /\ ScorerIdle /\ ParserIdle /\ BuilderIdle
    /\ TemporalIdle /\ AssemblyIdle

\* sixty seconds pass without a request
minute_passes ==
    /\ mgr_pc \in {"idle", "returned", "raised"}
    /\ \E i \in 1..Len(providers) :
          providers[i].request_recent \/ providers[i].invocations > 0
    /\ providers' = [i \in 1..Len(providers) |->
                        [providers[i] EXCEPT !.request_recent = FALSE,
                                             !.invocations = 0]]
    /\ UNCHANGED <<provider_behaviour, mgr_pc, provider_order, attempts, last_error,
                   calls, llm_result, total_requests, successful_requests,
                   failed_requests>>

\* health_check_interval (300 seconds) passes without a request
health_check_interval_passes ==
    /\ mgr_pc \in {"idle", "returned", "raised"}
    /\ \E i \in 1..Len(providers) :
          \/ ~providers[i].health_check_due
          \/ providers[i].request_recent
          \/ providers[i].invocations > 0
    /\ providers' = [i \in 1..Len(providers) |->
                        [providers[i] EXCEPT !.health_check_due = TRUE,
                                             !.request_recent = FALSE,
                                             !.invocations = 0]]
    /\ UNCHANGED <<provider_behaviour, mgr_pc, provider_order, attempts, last_error,
                   calls, llm_result, total_requests, successful_requests,
                   failed_requests>>

\* the service behind a provider comes back
provider_recovers ==
    /\ mgr_pc \in {"idle", "returned", "raised"}
    /\ \E i \in 1..Len(providers) :
          /\ provider_behaviour[i] # [outcome |-> "returns", available |-> TRUE]
          /\ provider_behaviour' =
                [provider_behaviour EXCEPT
                     ![i] = [outcome |-> "returns", available |-> TRUE]]
    /\ UNCHANGED <<providers, mgr_pc, provider_order, attempts, last_error,
                   calls, llm_result, total_requests, successful_requests,
                   failed_requests>>

\* health_check_all_providers, as GET /health runs it
health_check_all_providers ==
    /\ mgr_pc \in {"idle", "returned", "raised"}
    /\ providers' = [i \in 1..Len(providers) |->
                        [providers[i] EXCEPT
                             !.is_healthy = provider_behaviour[i].available,
                             !.health_check_due = FALSE,
                             !.marked_by_error = FALSE]]
    /\ providers' # providers
    /\ UNCHANGED <<provider_behaviour, mgr_pc, provider_order, attempts, last_error,
                   calls, llm_result, total_requests, successful_requests,
                   failed_requests>>

NextManagerClock ==
    \/ LLMManager_generate_response /\ ManagerFrame
    \/ try_provider /\ ManagerFrame
    \/ raise_last_error /\ ManagerFrame
    \/ minute_passes /\ ManagerFrame
    \/ health_check_interval_passes /\ ManagerFrame
    \/ provider_recovers /\ ManagerFrame
    \/ health_check_all_providers /\ ManagerFrame

SpecManagerClock == InitManagerClock /\ [][NextManagerClock]_vars

\* --- the context builder: a graph context, retrieved for an intent drawn
\* --- in the initial state, is assembled once
InitBuilder ==
    /\ GraphLoaded(EngineKGFiles)
    /\ max_context_length \in MaxContextLengths
    /\ citation_counter = 0
    /\ query_count = 0
    /\ total_processing_time = 0
    /\ query_intent \in Intents
    /\ graph_context = retrieve_context(index, kg, query_intent)
    /\ llm_context = NoLLMContext
    /\ ApiIdle /\ ValidatorIdle /\ OtherIdle

ContextBuilder_build_context ==
    /\ builder_pc = "idle"
    /\ context_parts' = joined_text(graph_context, query_intent)
    /\ llm_context' = build_context(graph_context, query_intent, max_context_length)
    /\ key_log' = key_allocations(graph_context, query_intent)
    /\ citation_counter' = citation_counter_after_build(graph_context, query_intent)
    /\ builder_pc' = "returned"
    /\ UNCHANGED <<max_context_length, query_count, total_processing_time,
                   query_intent, graph_context, graphVars, validatorVars, apiVars,
                   counterVars, traversalVars, scorerVars, managerVars, parserVars,
                   temporalVars, assemblyVars>>

NextBuilder == ContextBuilder_build_context

SpecBuilder == InitBuilder /\ [][NextBuilder]_vars

\* --- threads sharing the engine's ContextBuilder: build_context sets
\* --- self.citation_counter to 0 and every _get_next_citation_key adds
\* --- one to it and reads it back
\* most keys one build_context call issues
MaxKeys == 2

InitAssembly ==
    /\ max_context_length = 8000
    /\ citation_counter = 0
    /\ query_count = 0
    /\ total_processing_time = 0
    /\ query_intent = NoIntent
    /\ graph_context = NoGraphContext
    /\ llm_context = NoLLMContext
    /\ assembly_pc = [w \in Workers |-> "idle"]
    /\ assembly_reg = [w \in Workers |-> 0]
    /\ keys_needed \in [Workers -> 1..MaxKeys]
    /\ issued_keys = [w \in Workers |-> <<>>]
    /\ ApiIdle /\ ValidatorIdle /\ GraphIdle
    /\ CountersIdle /\ TraversalIdle /\ ScorerIdle /\ ManagerIdle /\ ParserIdle
    /\ BuilderIdle /\ TemporalIdle

\* self.citation_counter = 0
build_context_reset(w) ==
    /\ assembly_pc[w] = "idle"
    /\ citation_counter' = 0
    /\ assembly_pc' = [assembly_pc EXCEPT ![w] = "load"]
    /\ UNCHANGED <<assembly_reg, keys_needed, issued_keys>>

\* self.citation_counter += 1: the load
get_next_citation_key_load(w) ==
    /\ assembly_pc[w] = "load"
    /\ Len(issued_keys[w]) < keys_needed[w]
    /\ assembly_reg' = [assembly_reg EXCEPT ![w] = citation_counter]
    /\ assembly_pc' = [assembly_pc EXCEPT ![w] = "store"]
    /\ UNCHANGED <<citation_counter, keys_needed, issued_keys>>

\* self.citation_counter += 1: the store
get_next_citation_key_store(w) ==
    /\ assembly_pc[w] = "store"
    /\ citation_counter' = assembly_reg[w] + 1
    /\ assembly_pc' = [assembly_pc EXCEPT ![w] = "format"]
    /\ UNCHANGED <<assembly_reg, keys_needed, issued_keys>>

\* return f"Citation-{self.citation_counter}"; citations[citation_key] = ...
get_next_citation_key_format(w) ==
    /\ assembly_pc[w] = "format"
    /\ issued_keys' = [issued_keys EXCEPT ![w] = Append(@, citation_counter)]
    /\ assembly_pc' = [assembly_pc EXCEPT ![w] = "load"]
    /\ UNCHANGED <<citation_counter, assembly_reg, keys_needed>>

\* return LLMContext(..., citations=all_citations, ...)
build_context_return(w) ==
    /\ assembly_pc[w] = "load"
    /\ Len(issued_keys[w]) = keys_needed[w]
    /\ assembly_pc' = [assembly_pc EXCEPT ![w] = "returned"]
    /\ UNCHANGED <<citation_counter, assembly_reg, keys_needed, issued_keys>>

AssemblyFrame ==
    UNCHANGED <<max_context_length, query_count, total_processing_time, query_intent,
                graph_context, llm_context, graphVars, validatorVars, apiVars,
                counterVars, traversalVars, scorerVars, managerVars, parserVars,
                builderVars, temporalVars>>

NextAssembly ==
    \E w \in Workers :
        \/ build_context_reset(w) /\ AssemblyFrame
        \/ get_next_citation_key_load(w) /\ AssemblyFrame
        \/ get_next_citation_key_store(w) /\ AssemblyFrame
        \/ get_next_citation_key_format(w) /\ AssemblyFrame
        \/ build_context_return(w) /\ AssemblyFrame

SpecAssembly == InitAssembly /\ [][NextAssembly]_vars

\* the number of the structural section part k of a text belongs to
SectionOf(parts, k) == Cardinality({ j \in 1..k : parts[j].kind = "header" })

\* C21: when the joined text is longer than the maximum, the text returned
\* ends with the truncation marker, and the first two structural sections
\* of the joined text stand in it whole, in their places.
C21_TruncationKeepsFirstTwoSections ==
    (builder_pc = "returned" /\ TextLen(context_parts) > max_context_length) =>
        /\ llm_context.formatted_text # <<>>
        /\ llm_context.formatted_text[Len(llm_context.formatted_text)]
              = TruncationNotice
        /\ \A k \in 1..Len(context_parts) :
              SectionOf(context_parts, k) <= 2 =>
                  /\ k < Len(llm_context.formatted_text)
                  /\ llm_context.formatted_text[k] = context_parts[k]

\* C30: the text build_context returns is never longer than
\* max_context_length.
C30_ContextWithinMaximum ==
    builder_pc = "returned" =>
        TextLen(llm_context.formatted_text) <= max_context_length

\* C22: in one build_context call every key is issued for a node whose text
\* is emitted, and no node is issued two keys (so that the keys of the
\* emitted nodes are Citation-1, Citation-2, ... without gaps).
C22_OneKeyPerEmittedNode ==
    builder_pc = "returned" =>
        \A i \in 1..Len(key_log) :
            /\ key_log[i].emitted
            /\ \A j \in 1..Len(key_log) :
                  (j # i /\ key_log[i].node_id # "") =>
                      key_log[j].node_id # key_log[i].node_id

\* C23: under require_all_claims a response with an uncited_claim issue is
\* not valid.
C23_StrictPolicyBlocksUncitedClaims ==
    (validated /\ require_all_claims
       /\ \E i \in 1..Len(result.issues) : result.issues[i].issue_type = "uncited_claim")
        => ~result.is_valid

\* the section nodes of the context that are not of the current act
OutdatedSections ==
    { i \in 1..Len(graph_context.nodes) :
        /\ graph_context.nodes[i].node_type = "section"
        /\ ~OccursIn(current_act, graph_context.nodes[i].content.act) }

\* C24: temporal_validity is 0.5 for a context without nodes; otherwise it
\* is 1.0 when every section node of the context is of the current act and
\* the penalty value when some section node is not.
C24_TemporalValidityByAllSections ==
    temporal_validity # -1 =>
        temporal_validity =
            IF graph_context.nodes = <<>> THEN 50
            ELSE IF OutdatedSections = {} THEN 100
            ELSE outdated_score

\* the node ids one allow-listed edge away from a node of S, and S
OneHop(S) ==
    LET leaving == UNION { Range(index.edges_from[n]) :
                             n \in S \cap DOMAIN index.edges_from }
    IN S \cup { e[1] : e \in { x \in leaving :
                                  x[2] \in trav_request.relation_types } }

\* the node ids at the end of a path of at most d allow-listed edges from
\* the start node
RECURSIVE WithinDepth(_)
WithinDepth(d) ==
    IF d < 0 THEN {}
    ELSE IF d = 0 THEN {trav_request.start_node}
    ELSE OneHop(WithinDepth(d - 1))

Resolving(S) == { n \in S : _get_node_by_id(index, n) # NoNode }

\* C25: traverse_relationships returns the nodes that resolve and lie within
\* max_depth allow-listed edges of the start node, those only, each once.
C25_ExactlyTheReachableNodes ==
    trav_pc = "returned" =>
        /\ { result_nodes[i].node_id : i \in 1..Len(result_nodes) }
              = Resolving(WithinDepth(trav_request.max_depth))
        /\ \A i \in 1..Len(result_nodes) :
              /\ result_nodes[i] = _get_node_by_id(index, result_nodes[i].node_id)
              /\ \A j \in 1..Len(result_nodes) :
                    j # i => result_nodes[j].node_id # result_nodes[i].node_id

\* a traversal that returned two nodes or more, left out a node one edge
\* beyond max_depth, and passed by an edge whose relation is not allowed
C25_Witness ==
    /\ trav_pc = "returned"
    /\ Len(result_nodes) >= 2
    /\ Resolving(WithinDepth(trav_request.max_depth + 1))
          # Resolving(WithinDepth(trav_request.max_depth))
    /\ \E n \in visited \cap DOMAIN index.edges_from :
          \E e \in Range(index.edges_from[n]) :
              e[2] \notin trav_request.relation_types

\* C26: the citation map a build_context call returns has the keys
\* Citation-1 .. Citation-n, n the number of keys the call issued, whatever
\* the other thread does meanwhile.
C26_CitationNumberingIsolated ==
    \A w \in Workers :
        assembly_pc[w] = "returned" =>
            Range(issued_keys[w]) = 1..keys_needed[w]

\* C27: when no generate_response call is under way, total_requests is
\* the sum of successful_requests and failed_requests.
C27_RequestsAddUp ==
    mgr_pc \in {"idle", "returned", "raised"} =>
        total_requests = successful_requests + failed_requests

\* a request answered after a fallback and a request that raised
C27_Witness ==
    /\ mgr_pc \in {"returned", "raised"}
    /\ successful_requests >= 1
    /\ failed_requests >= 1
    /\ Len(calls) >= 2

\* C28: a request that starts when a provider that was marked unhealthy for
\* an api_error, a timeout or an unknown failure is enabled, its health
\* check interval has passed and its is_available() would succeed, has
\* that provider among the providers it tries.
C28_RecoveredProviderEligible ==
    [][ LLMManager_generate_response =>
          \A i \in 1..Len(providers) :
              ( /\ providers[i].enabled
                /\ providers[i].marked_by_error
                /\ providers[i].health_check_due
                /\ provider_behaviour[i].available )
              => \E k \in 1..Len(provider_order') : provider_order'[k] = i ]_vars

\* C29: within a minute no provider's generate_response is called more
\* often than its max_requests_per_minute.
C29_InvocationsWithinLimit ==
    \A i \in 1..Len(providers) :
        providers[i].invocations <= providers[i].max_requests_per_minute

====
